---- MODULE Spec2Model ----
(***************************************************************************)
(* Model of the recursive clustering engine of src/recursion_3_levels.py:  *)
(* the retry/backoff controller, the batch embedding client, the cluster   *)
(* labeler, the level processor and the hierarchy builder.                 *)
(***************************************************************************)
EXTENDS Integers, Sequences, FiniteSets, TLC

VARIABLES
    openaiNames,    \* the names the imported openai module defines
    config,         \* ClusteringConfig, with its BackoffConfig flattened in
    labelService,   \* the kinds of answer the text-generation service gives
    exc,            \* the exception handed to _should_retry
    verdict,        \* what _should_retry returned for exc
    descriptions,   \* _embed_descriptions_async: the input list
    batchTask,      \* one process_batch task per batch
    embedSemaphore, \* free permits of the embedding semaphore
    embeddings,     \* the list the batch tasks extend
    embedOutcome,   \* how _embed_descriptions_async ended
    topics,         \* recursive_cluster: the topics with a valid vector
    level,          \* the level being processed
    runPc,          \* where recursive_cluster stands
    runError,       \* the exception recursive_cluster raised
    nodes,          \* l0_nodes, l1_nodes, l2_nodes
    labelTask,      \* one label_node task per node of the level
    labelSemaphore, \* free permits of the labeling semaphore
    files,          \* the output files written
    df,             \* the rows read from the input CSV
    tables,         \* the assignments and augmented tables saved
    stage,          \* process_clustering of the pipeline: its position and data
    topicGen,       \* _generate_topics_async: its rows, tasks and results
    topicEmbed,     \* embed_topics: its topics, batch tasks and vectors
    runner          \* main of the pipeline runner: its flags and the stages run

libVars == <<openaiNames, config, labelService>>
classifyVars == <<exc, verdict>>
embedVars == <<descriptions, batchTask, embedSemaphore, embeddings, embedOutcome>>
labelVars == <<labelTask, labelSemaphore>>
runVars == <<topics, level, runPc, runError, nodes, files, df, tables>>
pipeVars == <<stage, topicGen, topicEmbed, runner>>
nonEmbedVars == <<libVars, classifyVars, labelVars, runVars, pipeVars>>
vars == <<libVars, classifyVars, embedVars, labelVars, runVars, pipeVars>>

----------------------------------------------------------------------------
(* Bounds of the model.                                                    *)

\* SpecEmbedBatch: the retry loop of one batch
MaxRetriesBound == 3
MaxBaseDelay == 2
MaxMaxDelay == 4
\* SpecEmbed: the concurrent batches of one embedding operation
MaxDescriptions == 2
MaxBatchSize == 2
MaxConcurrency == 2
MaxEmbedRetries == 1
\* Spec: a run of recursive_cluster
MaxTopics == 2
\* SpecOutputs: the rows of the input table
MaxRows == 3
MaxStageRows == 2
MaxItems == 3
MaxItemsPerPrompt == 2
MaxGenRows == 2
MaxEmbedRows == 3

----------------------------------------------------------------------------
(* The openai exception classes, as the engine sees them.                  *)

NoneValue == 0

OptionalNames ==
    {"RateLimitError", "ServiceUnavailableError", "APITimeoutError",
     "APIConnectionError", "APIError"}

\* The library the engine imports AsyncOpenAI from defines no
\* ServiceUnavailableError; the other variant defines all five names.
Libraries == {OptionalNames, OptionalNames \ {"ServiceUnavailableError"}}

\* The classes an exception of class cls is an instance of.
Bases(cls) ==
    CASE cls = "RateLimitError" ->
            {"RateLimitError", "APIStatusError", "APIError", "Exception"}
      [] cls = "ServiceUnavailableError" ->
            {"ServiceUnavailableError", "APIError", "Exception"}
      [] cls = "APITimeoutError" ->
            {"APITimeoutError", "APIConnectionError", "APIError", "Exception"}
      [] cls = "APIConnectionError" ->
            {"APIConnectionError", "APIError", "Exception"}
      [] cls = "APIStatusError" -> {"APIStatusError", "APIError", "Exception"}
      [] cls = "APIError" -> {"APIError", "Exception"}
      [] cls = "JSONDecodeError" -> {"JSONDecodeError", "ValueError", "Exception"}
      [] OTHER -> {cls, "Exception"}

Exception(cls, status, status_code) ==
    [cls |-> cls, status |-> status, status_code |-> status_code]

StatusCodes ==
    {400, 401, 403, 404, 408, 409, 413, 422, 425, 500, 501, 502, 503, 504}

\* Every exception a service call or the response handling can raise when
\* the library defines the names lib.
Exceptions(lib) ==
    {Exception("RateLimitError", NoneValue, 429)}
    \cup {Exception("APIStatusError", NoneValue, s) : s \in StatusCodes}
    \cup {Exception("APIError", s, NoneValue) : s \in {NoneValue, 429, 503}}
    \cup {Exception(c, NoneValue, NoneValue) :
            c \in {"APITimeoutError", "APIConnectionError", "ValueError",
                   "JSONDecodeError", "TypeError", "KeyError", "IndexError",
                   "RuntimeError"}}
    \cup (IF "ServiceUnavailableError" \in lib
            THEN {Exception("ServiceUnavailableError", NoneValue, 503)}
            ELSE {})

\* getattr(openai, name, Exception)
GetAttrOpenai(name) == IF name \in openaiNames THEN name ELSE "Exception"

IsInstance(e, cls) == cls \in Bases(e.cls)

RetryableStatuses == {408, 409, 425, 429, 500, 502, 503, 504}

\* a or b, on attribute values where None and 0 are falsy
PyOr(a, b) == IF a # NoneValue THEN a ELSE b

_should_retry(e) ==
    LET retryable == {GetAttrOpenai(name) :
                        name \in {"RateLimitError", "ServiceUnavailableError",
                                  "APITimeoutError", "APIConnectionError"}}
        APIError == GetAttrOpenai("APIError")
    IN  IF \E cls \in retryable : IsInstance(e, cls)
          THEN TRUE
          ELSE IF IsInstance(e, APIError)
                 THEN PyOr(e.status, e.status_code) \in RetryableStatuses
                 ELSE FALSE

----------------------------------------------------------------------------
(* SpecClassify: _should_retry applied to the exceptions that reach it.    *)

NoException == Exception("None", NoneValue, NoneValue)

IdleEmbedding ==
    /\ descriptions = <<>>
    /\ batchTask = <<>>
    /\ embedSemaphore = 0
    /\ embeddings = <<>>
    /\ embedOutcome = [status |-> "idle", value |-> <<>>, error |-> NoException]

\* The answers of the text-generation service in the runs: well-formed
\* ones and ones lacking a key.
UsualAnswers == {"both", "no_description"}

NoTables == [assignments |-> <<>>, augmented |-> <<>>]

\* process_clustering before it is called.
StageIdle ==
    [pc |-> "idle", n_clusters |-> <<>>, valid_df |-> <<>>, work |-> <<>>,
     current |-> [label |-> "", description |-> ""], results |-> <<>>,
     output_csv |-> <<>>]

\* _generate_topics_async, embed_topics and the pipeline runner before they
\* are called.
GenIdle ==
    [pc |-> "idle", rows |-> <<>>, task |-> <<>>, semaphore |-> 0,
     results |-> <<>>, output_csv |-> <<>>]

EmbedTopicsIdle ==
    [pc |-> "idle", raw_topics |-> <<>>, batches |-> <<>>, task |-> <<>>,
     semaphore |-> 0, embeddings |-> {}, sent |-> <<>>, output_csv |-> <<>>]

RunnerIdle == [pc |-> "idle", args |-> <<>>, calls |-> <<>>]

IdleStages ==
    /\ topicGen = GenIdle
    /\ topicEmbed = EmbedTopicsIdle
    /\ runner = RunnerIdle

IdleRun ==
    /\ topics = <<>>
    /\ level = 0
    /\ runPc = "idle"
    /\ runError = NoException
    /\ nodes = <<<<>>, <<>>, <<>>>>
    /\ labelTask = <<>>
    /\ labelSemaphore = 0
    /\ files = {}
    /\ df = <<>>
    /\ tables = NoTables
    /\ stage = StageIdle
    /\ IdleStages

DefaultConfig ==
    [ks |-> <<50, 25, 5>>, embedding_batch_size |-> 128,
     embedding_concurrency |-> 8, deepseek_concurrency |-> 5,
     max_items_per_prompt |-> 60, max_chars_per_prompt |-> 8000,
     max_retries |-> 6, base_delay |-> 1, max_delay |-> 30]

InitClassify ==
    /\ openaiNames \in Libraries
    /\ labelService = UsualAnswers
    /\ config = DefaultConfig
    /\ exc \in Exceptions(openaiNames)
    /\ verdict = "unclassified"
    /\ IdleEmbedding
    /\ IdleRun

\* An except clause hands the caught exception to _should_retry.
Classify ==
    /\ verdict = "unclassified"
    /\ verdict' = IF _should_retry(exc) THEN "retry" ELSE "fatal"
    /\ UNCHANGED <<pipeVars, exc, libVars, embedVars, labelVars, runVars>>

\* The next attempt raises another exception.
NextException ==
    /\ verdict # "unclassified"
    /\ exc' \in Exceptions(openaiNames)
    /\ verdict' = "unclassified"
    /\ UNCHANGED <<pipeVars, libVars, embedVars, labelVars, runVars>>

NextClassify == Classify \/ NextException

SpecClassify == InitClassify /\ [][NextClassify]_vars

----------------------------------------------------------------------------
(* The retry/backoff controller and the batch embedding client.            *)

Min(a, b) == IF a <= b THEN a ELSE b

SleepWithJitter_Uncapped(base_delay, attempt, max_delay, jitter) ==
    [delay |-> base_delay * (2 ^ attempt), jitter |-> jitter]

SleepWithJitter_Shrinking(base_delay, attempt, max_delay, jitter) ==
    [delay |-> Min(max_delay, base_delay * (2 ^ attempt)) \div (attempt + 1),
     jitter |-> jitter]

\* _sleep_with_jitter: the wait it asks for, jitter being the value
\* random.uniform(0, base_delay) returned.
SleepWithJitter(base_delay, attempt, max_delay, jitter) ==
    [delay |-> Min(max_delay, base_delay * (2 ^ attempt)), jitter |-> jitter]

NoWait == [delay |-> 0, jitter |-> 0]

\* The vector the embedding service returns for one input string.
EmbeddingOf(text) == "vec(" \o text \o ")"

\* batches = [descriptions[i : i + size] for i in range(0, len, size)]
NumBatches(descs, size) == (Len(descs) + size - 1) \div size

BatchOf(descs, size, b) ==
    SubSeq(descs, (b - 1) * size + 1, Min(b * size, Len(descs)))

\* slept lists the deterministic delays of the waits the task has asked
\* for so far.
NewBatchTask ==
    [pc |-> "waiting", attempt |-> 0, calls |-> 0, last_error |-> NoException,
     raised |-> NoException, wait |-> NoWait, slept |-> <<>>]

\* The state _embed_descriptions_async is in once its tasks are created.
EmbedStarted(descs) ==
    /\ descriptions' = descs
    /\ batchTask' = [b \in 1..NumBatches(descs, config.embedding_batch_size)
                        |-> NewBatchTask]
    /\ embedSemaphore' = config.embedding_concurrency
    /\ embeddings' = <<>>
    /\ embedOutcome' = [status |-> "running", value |-> <<>>,
                        error |-> NoException]

EmbedBatchOnError_NoLastAttemptCheck(t, e, jitter) ==
    IF ~_should_retry(e)
      THEN [t EXCEPT !.pc = "failed", !.calls = @ + 1, !.last_error = e,
                     !.raised = e]
      ELSE [t EXCEPT !.pc = "sleeping", !.calls = @ + 1, !.last_error = e,
                     !.wait = SleepWithJitter(config.base_delay, t.attempt,
                                              config.max_delay, jitter),
                     !.slept = Append(@,
                         SleepWithJitter(config.base_delay, t.attempt,
                                         config.max_delay, jitter).delay)]

\* _embed_batch, the except clause: e was raised by the call of this attempt.
EmbedBatchOnError(t, e, jitter) ==
    IF ~_should_retry(e) \/ t.attempt = config.max_retries
      THEN [t EXCEPT !.pc = "failed", !.calls = @ + 1, !.last_error = e,
                     !.raised = e]
      ELSE [t EXCEPT !.pc = "sleeping", !.calls = @ + 1, !.last_error = e,
                     !.wait = SleepWithJitter(config.base_delay, t.attempt,
                                              config.max_delay, jitter),
                     !.slept = Append(@,
                         SleepWithJitter(config.base_delay, t.attempt,
                                         config.max_delay, jitter).delay)]

\* _embed_batch, the for statement: the next attempt, or the RuntimeError
\* after the loop when range(max_retries + 1) is used up.
EmbedBatchNextAttempt(t) ==
    IF t.attempt + 1 < config.max_retries + 1
      THEN [t EXCEPT !.pc = "calling", !.attempt = @ + 1, !.wait = NoWait]
      ELSE [t EXCEPT !.pc = "failed", !.wait = NoWait,
                     !.raised = Exception("RuntimeError", NoneValue, NoneValue)]

\* The task after _embed_batch returned its vectors: its locals are gone,
\* what stays is the number of calls it made and the waits it asked for.
BatchTaskDone(t) ==
    [NewBatchTask EXCEPT !.pc = "done", !.calls = t.calls + 1,
                         !.slept = t.slept]

\* process_batch: what the task appends to the shared list.
ExtendEmbeddings(list, vectors, b) == list \o vectors

GatherOnTaskEnd_ReturnExceptions(outcome, t) == outcome

\* asyncio.gather without return_exceptions: the first exception of a task
\* is raised to the awaiting caller, the other tasks go on.
GatherOnTaskEnd(outcome, t) ==
    IF t.pc = "failed" /\ outcome.status = "running"
      THEN [outcome EXCEPT !.status = "raised", !.error = t.raised]
      ELSE outcome

AdmitBatch_NoSemaphore(b) ==
    /\ batchTask[b].pc = "waiting"
    /\ batchTask' = [batchTask EXCEPT ![b].pc = "calling"]
    /\ embedSemaphore' = embedSemaphore - 1
    /\ UNCHANGED <<descriptions, embeddings, embedOutcome, nonEmbedVars>>

\* async with semaphore: waiters are admitted in the order they queued.
AdmitBatch(b) ==
    /\ batchTask[b].pc = "waiting"
    /\ embedSemaphore > 0
    /\ \A c \in 1..(b - 1) : batchTask[c].pc # "waiting"
    /\ batchTask' = [batchTask EXCEPT ![b].pc = "calling"]
    /\ embedSemaphore' = embedSemaphore - 1
    /\ UNCHANGED <<descriptions, embeddings, embedOutcome, nonEmbedVars>>

\* client.embeddings.create returns one vector per input of the batch.
EmbedCallReturns(b) ==
    /\ batchTask[b].pc = "calling"
    /\ LET batch == BatchOf(descriptions, config.embedding_batch_size, b)
           vectors == [i \in 1..Len(batch) |-> EmbeddingOf(batch[i])]
       IN  embeddings' = ExtendEmbeddings(embeddings, vectors, b)
    /\ batchTask' = [batchTask EXCEPT ![b] = BatchTaskDone(@)]
    /\ embedSemaphore' = embedSemaphore + 1
    /\ UNCHANGED <<descriptions, embedOutcome, nonEmbedVars>>

\* The exceptions the embedding service raises in the model.
EmbedFailures ==
    {e \in Exceptions(openaiNames) :
        \/ e.cls = "RateLimitError"
        \/ e.cls = "APIStatusError" /\ e.status_code = 401}

EmbedCallFails(b, e, jitter) ==
    /\ batchTask[b].pc = "calling"
    /\ \E t \in {EmbedBatchOnError(batchTask[b], e, jitter)} :
           /\ batchTask' = [batchTask EXCEPT ![b] = t]
           /\ embedSemaphore' =
                 IF t.pc = "failed" THEN embedSemaphore + 1 ELSE embedSemaphore
           /\ embedOutcome' = GatherOnTaskEnd(embedOutcome, t)
    /\ UNCHANGED <<descriptions, embeddings, nonEmbedVars>>

\* asyncio.sleep of the backoff returns: the loop starts the next attempt.
BackoffElapses(b) ==
    /\ batchTask[b].pc = "sleeping"
    /\ \E t \in {EmbedBatchNextAttempt(batchTask[b])} :
           /\ batchTask' = [batchTask EXCEPT ![b] = t]
           /\ embedSemaphore' =
                 IF t.pc = "failed" THEN embedSemaphore + 1 ELSE embedSemaphore
           /\ embedOutcome' = GatherOnTaskEnd(embedOutcome, t)
    /\ UNCHANGED <<descriptions, embeddings, nonEmbedVars>>

\* gather returns once every batch task and update_progress have ended.
EmbedReturns ==
    /\ embedOutcome.status = "running"
    /\ \A b \in DOMAIN batchTask : batchTask[b].pc = "done"
    /\ Len(embeddings) >= Len(descriptions)
    /\ embedOutcome' = [embedOutcome EXCEPT !.status = "returned",
                                            !.value = embeddings]
    /\ UNCHANGED <<descriptions, batchTask, embedSemaphore, embeddings,
                   nonEmbedVars>>

----------------------------------------------------------------------------
(* SpecEmbed: one call of _embed_descriptions_async.                       *)

Texts == {"a", "b"}

RECURSIVE SeqsUpTo(_, _)
SeqsUpTo(S, n) ==
    IF n = 0 THEN {<<>>}
    ELSE LET shorter == SeqsUpTo(S, n - 1)
         IN  shorter \cup {Append(q, x) : q \in shorter, x \in S}

InitEmbed ==
    /\ openaiNames \in Libraries
    /\ labelService = UsualAnswers
    /\ \E r \in 0..MaxEmbedRetries, bs \in 1..MaxBatchSize,
          cc \in 1..MaxConcurrency :
          config = [DefaultConfig EXCEPT !.max_retries = r,
                                         !.embedding_batch_size = bs,
                                         !.embedding_concurrency = cc]
    /\ exc = NoException
    /\ verdict = "unclassified"
    /\ descriptions \in SeqsUpTo(Texts, MaxDescriptions)
    /\ batchTask = [b \in 1..NumBatches(descriptions, config.embedding_batch_size)
                       |-> NewBatchTask]
    /\ embedSemaphore = config.embedding_concurrency
    /\ embeddings = <<>>
    /\ embedOutcome = [status |-> "running", value |-> <<>>,
                       error |-> NoException]
    /\ IdleRun

NextEmbed ==
    \/ \E b \in DOMAIN batchTask : AdmitBatch(b)
    \/ \E b \in DOMAIN batchTask : EmbedCallReturns(b)
    \/ \E b \in DOMAIN batchTask, e \in EmbedFailures,
          jitter \in 0..config.base_delay : EmbedCallFails(b, e, jitter)
    \/ \E b \in DOMAIN batchTask : BackoffElapses(b)
    \/ EmbedReturns

SpecEmbed == InitEmbed /\ [][NextEmbed]_vars

----------------------------------------------------------------------------
(* SpecEmbedBatch: the retry loop of _embed_batch, on an operation of one  *)
(* batch.                                                                  *)

InitEmbedBatch ==
    /\ openaiNames \in Libraries
    /\ labelService = UsualAnswers
    /\ \E r \in 0..MaxRetriesBound, bd \in 1..MaxBaseDelay,
          md \in 1..MaxMaxDelay :
          config = [DefaultConfig EXCEPT !.max_retries = r, !.base_delay = bd,
                                         !.max_delay = md]
    /\ exc = NoException
    /\ verdict = "unclassified"
    /\ descriptions \in {<<"a">>, <<"a", "b">>}
    /\ batchTask = [b \in 1..NumBatches(descriptions, config.embedding_batch_size)
                       |-> NewBatchTask]
    /\ embedSemaphore = config.embedding_concurrency
    /\ embeddings = <<>>
    /\ embedOutcome = [status |-> "running", value |-> <<>>,
                       error |-> NoException]
    /\ IdleRun

SpecEmbedBatch == InitEmbedBatch /\ [][NextEmbed]_vars

----------------------------------------------------------------------------
(* ClusterNode and the cluster labeler.                                    *)

NoParent == -1
NoEmbedding == "None"

ClusterNode(lvl, node_id, k, children_refs) ==
    [level |-> lvl, node_id |-> node_id, parent_id |-> NoParent,
     k_at_level |-> k, label |-> "", description |-> "",
     description_embedding |-> NoEmbedding,
     num_children |-> Len(children_refs), children_refs |-> children_refs]

InSeq(x, q) == \E i \in 1..Len(q) : q[i] = x

\* The elements of a finite set of integers, in increasing order.
RECURSIVE SortedSeq(_)
SortedSeq(S) ==
    IF S = {} THEN <<>>
    ELSE LET m == CHOOSE x \in S : \A y \in S : x <= y
         IN  <<m>> \o SortedSeq(S \ {m})

\* label_node of _process_level_0: cluster_topics
ClusterTopics(node) ==
    [j \in 1..Len(node.children_refs) |-> topics[node.children_refs[j] + 1]]

ChildDescriptions_All(parent_nodes, node) ==
    [j \in 1..Len(parent_nodes) |-> parent_nodes[j].description]

\* label_node of _process_level_n: child_descriptions
ChildDescriptions(parent_nodes, node) ==
    LET idx == SortedSeq({i \in 1..Len(parent_nodes) :
                            InSeq(parent_nodes[i].node_id, node.children_refs)})
    IN  [j \in 1..Len(idx) |-> parent_nodes[idx[j]].description]

\* The texts label_node of level lvl hands to the labeler for node.
LabelItemsAt(lvl, node) ==
    IF lvl = 0 THEN ClusterTopics(node) ELSE ChildDescriptions(nodes[lvl], node)

LabelItems(node) == LabelItemsAt(level, node)

TruncateItems_DropsMarker(items) ==
    IF Len(items) > config.max_items_per_prompt
      THEN SubSeq(items, 1, config.max_items_per_prompt + 1)
      ELSE items

\* _label_cluster_with_deepseek: the truncation of the items
TruncateItems(items) ==
    IF Len(items) > config.max_items_per_prompt
      THEN LET kept == SubSeq(items, 1, config.max_items_per_prompt)
           IN  Append(kept,
                      "... and "
                      \o ToString(Len(kept) - config.max_items_per_prompt)
                      \o " more items")
      ELSE items

\* "\n".join([f"- {item}" for item in items])
RECURSIVE JoinItems(_)
JoinItems(items) ==
    IF Len(items) = 0 THEN ""
    ELSE IF Len(items) = 1 THEN "- " \o items[1]
    ELSE "- " \o items[1] \o "\n" \o JoinItems(Tail(items))

ItemsText(items) ==
    LET text == JoinItems(TruncateItems(items))
    IN  SubSeq(text, 1, Min(Len(text), config.max_chars_per_prompt))

Prompt(lvl, items) ==
    IF lvl = 0 THEN "topics:\n" \o ItemsText(items)
    ELSE "sub-clusters:\n" \o ItemsText(items)

\* What the text-generation service can answer to a prompt: a JSON object
\* with both keys, a JSON object lacking the description, or a JSON object
\* with both keys whose label is the empty string.
LabelResponses(prompt) ==
    {resp \in
        {[kind |-> "both", json |-> TRUE, keys |-> {"label", "description"},
          label |-> "L<" \o prompt \o ">",
          description |-> "D<" \o prompt \o ">"],
         [kind |-> "no_description", json |-> TRUE, keys |-> {"label"},
          label |-> "L<" \o prompt \o ">", description |-> ""],
         [kind |-> "blank_label", json |-> TRUE,
          keys |-> {"label", "description"},
          label |-> "", description |-> "D<" \o prompt \o ">"]} :
        resp.kind \in labelService}

NoResult == [label |-> "", description |-> ""]

FallbackResult(cluster_id, lvl) ==
    [label |-> "Cluster " \o ToString(cluster_id),
     description |-> "Cluster " \o ToString(cluster_id) \o " at level "
                     \o ToString(lvl)]

NewLabelTask ==
    [pc |-> "waiting", attempt |-> 0, calls |-> 0, last_error |-> NoException,
     raised |-> NoException, wait |-> NoWait, result |-> NoResult,
     fallback |-> FALSE]

LabelerOnError_Raises(t, e, cluster_id, lvl) ==
    IF ~_should_retry(e) \/ t.attempt = config.max_retries
      THEN [t EXCEPT !.pc = "failed", !.calls = @ + 1, !.last_error = e,
                     !.raised = e]
      ELSE [t EXCEPT !.pc = "sleeping", !.calls = @ + 1, !.last_error = e,
                     !.wait = [delay |-> config.base_delay * (2 ^ t.attempt),
                               jitter |-> 0]]

\* _label_cluster_with_deepseek, the except clause
LabelerOnError(t, e, cluster_id, lvl) ==
    IF ~_should_retry(e) \/ t.attempt = config.max_retries
      THEN [t EXCEPT !.pc = "returned", !.calls = @ + 1, !.last_error = e,
                     !.result = FallbackResult(cluster_id, lvl),
                     !.fallback = TRUE]
      ELSE [t EXCEPT !.pc = "sleeping", !.calls = @ + 1, !.last_error = e,
                     !.wait = [delay |-> config.base_delay * (2 ^ t.attempt),
                               jitter |-> 0]]

\* _label_cluster_with_deepseek, the try block after the call returned
LabelerOnResponse(t, resp, cluster_id, lvl) ==
    IF ~resp.json
      THEN LabelerOnError(t, Exception("JSONDecodeError", NoneValue, NoneValue),
                          cluster_id, lvl)
    ELSE IF "label" \notin resp.keys \/ "description" \notin resp.keys
      THEN LabelerOnError(t, Exception("ValueError", NoneValue, NoneValue),
                          cluster_id, lvl)
    ELSE [t EXCEPT !.pc = "returned", !.calls = @ + 1,
                   !.result = [label |-> resp.label,
                               description |-> resp.description]]

\* _label_cluster_with_deepseek, the for statement
LabelerNextAttempt(t) ==
    IF t.attempt + 1 < config.max_retries + 1
      THEN [t EXCEPT !.pc = "calling", !.attempt = @ + 1, !.wait = NoWait]
      ELSE [t EXCEPT !.pc = "failed", !.wait = NoWait,
                     !.raised = Exception("RuntimeError", NoneValue, NoneValue)]

StoreLabel_TruncatesRefs(levelNodes, n, result) ==
    [levelNodes EXCEPT
        ![n].label = result.label,
        ![n].description = result.description,
        ![n].children_refs =
            SubSeq(@, 1, Min(Len(@), config.max_items_per_prompt))]

StoreLabel_OnEveryNode(levelNodes, n, result) ==
    [i \in 1..Len(levelNodes) |->
        [levelNodes[i] EXCEPT !.label = result.label,
                              !.description = result.description]]

\* label_node: node.label = result["label"]; node.description = ...
StoreLabel(levelNodes, n, result) ==
    [levelNodes EXCEPT ![n].label = result.label,
                       ![n].description = result.description]

\* asyncio.gather(*tasks) of the labeling phase: a task that raises makes
\* the level processor, and with it the run, raise.
LabelGatherOnTaskEnd(pc, t) == IF t.pc = "failed" THEN "raised" ELSE pc

\* The task after the labeler returned: its locals are gone, what stays is
\* the number of calls it made and whether it returned the fallback.
LabelTaskDone(t) ==
    [NewLabelTask EXCEPT !.pc = "done", !.calls = t.calls,
                         !.fallback = t.fallback]

LabelNodeStep_KeepsSlotOnFallback(n, t) ==
    /\ labelTask' = [labelTask EXCEPT
                        ![n] = IF t.pc = "returned" THEN LabelTaskDone(t) ELSE t]
    /\ nodes' = IF t.pc = "returned"
                  THEN [nodes EXCEPT ![level + 1] = StoreLabel(@, n, t.result)]
                  ELSE nodes
    /\ labelSemaphore' = IF t.pc = "returned" /\ ~t.fallback
                           THEN labelSemaphore + 1 ELSE labelSemaphore
    /\ runPc' = LabelGatherOnTaskEnd(runPc, t)
    /\ runError' = IF t.pc = "failed" THEN t.raised ELSE runError
    /\ UNCHANGED <<pipeVars, libVars, classifyVars, embedVars, topics, level, files, df, tables>>

\* label_node after the labeler took one step to t: a returned result is
\* stored on the node and the permit is released.
LabelNodeStep(n, t) ==
    /\ labelTask' = [labelTask EXCEPT
                        ![n] = IF t.pc = "returned" THEN LabelTaskDone(t) ELSE t]
    /\ nodes' = IF t.pc = "returned"
                  THEN [nodes EXCEPT ![level + 1] = StoreLabel(@, n, t.result)]
                  ELSE nodes
    /\ labelSemaphore' = IF t.pc \in {"returned", "failed"}
                           THEN labelSemaphore + 1 ELSE labelSemaphore
    /\ runPc' = LabelGatherOnTaskEnd(runPc, t)
    /\ runError' = IF t.pc = "failed" THEN t.raised ELSE runError
    /\ UNCHANGED <<pipeVars, libVars, classifyVars, embedVars, topics, level, files, df, tables>>

LabelAdmit(n) ==
    /\ runPc = "labeling"
    /\ labelTask[n].pc = "waiting"
    /\ labelSemaphore > 0
    /\ \A c \in 1..(n - 1) : labelTask[c].pc # "waiting"
    /\ labelTask' = [labelTask EXCEPT ![n].pc = "calling"]
    /\ labelSemaphore' = labelSemaphore - 1
    /\ UNCHANGED <<pipeVars, libVars, classifyVars, embedVars, runVars>>

\* client.chat.completions.create returns a response.
LabelCallReturns(n) ==
    /\ runPc = "labeling"
    /\ labelTask[n].pc = "calling"
    /\ \E node \in {nodes[level + 1][n]} :
       \E prompt \in {Prompt(level, LabelItems(node))} :
       \E resp \in LabelResponses(prompt) :
       \E t \in {LabelerOnResponse(labelTask[n], resp, node.node_id, level)} :
          LabelNodeStep(n, t)

\* The exceptions the text-generation service raises in the model.
LabelFailures ==
    {e \in Exceptions(openaiNames) :
        \/ e.cls = "RateLimitError"
        \/ e.cls = "APIStatusError" /\ e.status_code = 401}

LabelCallFails(n, e) ==
    /\ runPc = "labeling"
    /\ labelTask[n].pc = "calling"
    /\ \E t \in {LabelerOnError(labelTask[n], e,
                                  nodes[level + 1][n].node_id, level)} :
          LabelNodeStep(n, t)

\* time.sleep of the labeler returns: the loop starts the next attempt.
LabelBackoffElapses(n) ==
    /\ runPc = "labeling"
    /\ labelTask[n].pc = "sleeping"
    /\ LabelNodeStep(n, LabelerNextAttempt(labelTask[n]))

----------------------------------------------------------------------------
(* The input table of recursive_cluster and the parsing of its vectors.    *)

\* The Topic_Embedding cell holding the JSON list of the vector of a topic.
VectorCell(topic) == "[" \o topic \o "]"

\* json.loads(emb_str): a list with its items, another JSON value, or a
\* JSONDecodeError.
JsonLoads(cell) ==
    IF Len(cell) >= 2 /\ SubSeq(cell, 1, 1) = "["
                      /\ SubSeq(cell, Len(cell), Len(cell)) = "]"
      THEN [ok |-> TRUE, list |-> TRUE, items |-> SubSeq(cell, 2, Len(cell) - 1)]
    ELSE IF cell \in {"{}", "7"}
      THEN [ok |-> TRUE, list |-> FALSE, items |-> ""]
    ELSE [ok |-> FALSE, list |-> FALSE, items |-> ""]

\* The body of the parsing loop: the vector of a cell, or NoEmbedding when
\* the row is skipped.
ParseCell(cell) ==
    IF cell \in {"NaN", "null", ""} THEN NoEmbedding
    ELSE LET emb == JsonLoads(cell)
         IN  IF emb.ok /\ emb.list /\ emb.items # "" THEN emb.items
             ELSE NoEmbedding

\* valid_indices: the 0-based positions of the rows with a vector.
ValidIndices(d) ==
    SortedSeq({i - 1 : i \in {j \in 1..Len(d) :
                                ParseCell(d[j].Topic_Embedding) # NoEmbedding}})

\* topics = [topics[i] for i in valid_indices]
FilterTopics(d) ==
    LET valid_indices == ValidIndices(d)
    IN  [j \in 1..Len(valid_indices) |-> d[valid_indices[j] + 1].Topic]

\* embeddings = np.array(embeddings_list)
ParsedEmbeddings(d) ==
    LET valid_indices == ValidIndices(d)
    IN  [j \in 1..Len(valid_indices) |->
            ParseCell(d[valid_indices[j] + 1].Topic_Embedding)]

\* An input table whose rows all carry the vector of their topic.
DfOf(tpcs) ==
    [i \in 1..Len(tpcs) |->
        [Topic |-> tpcs[i], Topic_Embedding |-> VectorCell(tpcs[i])]]

----------------------------------------------------------------------------
(* SpecLabel: the labeling of one level-0 node, over the retry settings.   *)

InitLabel ==
    /\ openaiNames \in Libraries
    /\ labelService = UsualAnswers \cup {"blank_label"}
    /\ \E r \in 0..MaxRetriesBound, bd \in 1..MaxBaseDelay,
          md \in 1..MaxMaxDelay :
          config = [DefaultConfig EXCEPT !.max_retries = r, !.base_delay = bd,
                                         !.max_delay = md, !.ks = <<1>>]
    /\ exc = NoException
    /\ verdict = "unclassified"
    /\ IdleEmbedding
    /\ topics = <<"t1", "t2">>
    /\ level = 0
    /\ runPc = "labeling"
    /\ runError = NoException
    /\ nodes = <<<<ClusterNode(0, 0, 1, <<0, 1>>)>>, <<>>, <<>>>>
    /\ labelTask = <<NewLabelTask>>
    /\ labelSemaphore = config.deepseek_concurrency
    /\ files = {}
    /\ df = DfOf(topics)
    /\ tables = NoTables
    /\ stage = StageIdle
    /\ IdleStages

NextLabel ==
    \/ \E n \in DOMAIN labelTask : LabelAdmit(n)
    \/ \E n \in DOMAIN labelTask : LabelCallReturns(n)
    \/ \E n \in DOMAIN labelTask, e \in LabelFailures : LabelCallFails(n, e)
    \/ \E n \in DOMAIN labelTask : LabelBackoffElapses(n)

SpecLabel == InitLabel /\ [][NextLabel]_vars

----------------------------------------------------------------------------
(* SpecPrompt: the labeling of one level-0 node, over the number of its    *)
(* topics and the two prompt limits.                                       *)

\* The values of max_items_per_prompt and max_chars_per_prompt of the runs:
\* a character limit that cuts the text of two items, and the default.
PromptItemLimits == 0..MaxItemsPerPrompt
PromptCharLimits == {7, DefaultConfig.max_chars_per_prompt}

InitPrompt ==
    /\ openaiNames \in Libraries
    /\ labelService = UsualAnswers
    /\ \E r \in {0, 1}, mi \in PromptItemLimits, mc \in PromptCharLimits :
          config = [DefaultConfig EXCEPT !.max_retries = r, !.ks = <<1>>,
                                         !.max_items_per_prompt = mi,
                                         !.max_chars_per_prompt = mc]
    /\ exc = NoException
    /\ verdict = "unclassified"
    /\ IdleEmbedding
    /\ \E n \in 0..MaxItems : topics = [i \in 1..n |-> "t" \o ToString(i)]
    /\ level = 0
    /\ runPc = "labeling"
    /\ runError = NoException
    /\ nodes = <<<<ClusterNode(0, 0, 1, [i \in 1..Len(topics) |-> i - 1])>>,
                 <<>>, <<>>>>
    /\ labelTask = <<NewLabelTask>>
    /\ labelSemaphore = config.deepseek_concurrency
    /\ files = {}
    /\ df = DfOf(topics)
    /\ tables = NoTables
    /\ stage = StageIdle
    /\ IdleStages

SpecPrompt == InitPrompt /\ [][NextLabel]_vars

----------------------------------------------------------------------------
(* The level processor and recursive_cluster.                              *)

\* KMeans(n_clusters=k).fit_predict: rows with equal vectors share a group,
\* and min(k, number of distinct vectors) groups are used.
KMeansLabels(vectors, k) ==
    LET n == Len(vectors)
        distinct == Cardinality({vectors[i] : i \in 1..n})
    IN  {f \in [1..n -> 0..(k - 1)] :
            /\ \A i, j \in 1..n : vectors[i] = vectors[j] => f[i] = f[j]
            /\ Cardinality({f[i] : i \in 1..n}) = Min(k, distinct)}

\* The vectors a level clusters: the topic embeddings at level 0 (the
\* Topic_Embedding column, one vector per topic text), above it the
\* description embeddings of the level below.
LevelVectors ==
    IF level = 0 THEN ParsedEmbeddings(df)
    ELSE [i \in 1..Len(nodes[level]) |-> nodes[level][i].description_embedding]

MemberIndices_UpTo(f, cluster_id) ==
    SortedSeq({i - 1 : i \in {j \in DOMAIN f : f[j] <= cluster_id}})

\* np.where(cluster_labels == cluster_id)[0].tolist()
MemberIndices(f, cluster_id) ==
    SortedSeq({i - 1 : i \in {j \in DOMAIN f : f[j] = cluster_id}})

\* The node shells of a level, one per cluster_id in range(k).
BuildNodes(lvl, k, f) ==
    [c \in 1..k |->
        LET indices == MemberIndices(f, c - 1)
        IN  ClusterNode(lvl, c - 1, k,
                IF lvl = 0 THEN indices
                ELSE [j \in 1..Len(indices) |->
                        nodes[lvl][indices[j] + 1].node_id])]

Partition_SharedCap ==
    /\ runPc = "partition"
    /\ level + 1 <= Len(config.ks)
    /\ config.ks[level + 1] <= Len(LevelVectors)
    /\ \E vectors \in {LevelVectors} :
       \E f \in KMeansLabels(vectors, config.ks[level + 1]) :
          nodes' = [nodes EXCEPT
                      ![level + 1] = BuildNodes(level, config.ks[level + 1], f)]
    /\ labelTask' = [n \in 1..config.ks[level + 1] |-> NewLabelTask]
    /\ labelSemaphore' = config.embedding_concurrency
    /\ runPc' = "labeling"
    /\ UNCHANGED <<pipeVars, libVars, classifyVars, embedVars, topics, level, runError,
                   files, df, tables>>

\* _process_level_0 / _process_level_n up to the creation of the label tasks.
Partition ==
    /\ runPc = "partition"
    /\ level + 1 <= Len(config.ks)
    /\ config.ks[level + 1] <= Len(LevelVectors)
    /\ \E vectors \in {LevelVectors} :
       \E f \in KMeansLabels(vectors, config.ks[level + 1]) :
          nodes' = [nodes EXCEPT
                      ![level + 1] = BuildNodes(level, config.ks[level + 1], f)]
    /\ labelTask' = [n \in 1..config.ks[level + 1] |-> NewLabelTask]
    /\ labelSemaphore' = config.deepseek_concurrency
    /\ runPc' = "labeling"
    /\ UNCHANGED <<pipeVars, libVars, classifyVars, embedVars, topics, level, runError,
                   files, df, tables>>

\* config.ks[level] raises IndexError; KMeans raises ValueError when it is
\* asked for more clusters than there are rows.
PartitionRaises ==
    /\ runPc = "partition"
    /\ \/ level + 1 > Len(config.ks)
       \/ /\ level + 1 <= Len(config.ks)
          /\ config.ks[level + 1] > Len(LevelVectors)
    /\ runPc' = "raised"
    /\ runError' = IF level + 1 > Len(config.ks)
                     THEN Exception("IndexError", NoneValue, NoneValue)
                     ELSE Exception("ValueError", NoneValue, NoneValue)
    /\ UNCHANGED <<pipeVars, libVars, classifyVars, embedVars, labelVars, topics, level,
                   nodes, files, df, tables>>

Max(S) == CHOOSE x \in S : \A y \in S : y <= x

BackLink_Skipped(parent_nodes, level_nodes) == parent_nodes

\* _process_level_n: "Set parent_ids for parent nodes"
BackLink(parent_nodes, level_nodes) ==
    [i \in 1..Len(parent_nodes) |->
        LET id == parent_nodes[i].node_id
            first == \A h \in 1..(i - 1) : parent_nodes[h].node_id # id
            holders == {j \in 1..Len(level_nodes) :
                          InSeq(id, level_nodes[j].children_refs)}
        IN  IF first /\ holders # {}
              THEN [parent_nodes[i] EXCEPT
                      !.parent_id = level_nodes[Max(holders)].node_id]
              ELSE parent_nodes[i]]

BackLinked_AllLower ==
    IF level = 0 THEN nodes
    ELSE [l \in 1..3 |->
            IF l <= level THEN BackLink(nodes[l], nodes[level + 1])
            ELSE nodes[l]]

\* The node lists after the back-linking loop of the level.
BackLinked ==
    IF level = 0 THEN nodes
    ELSE [nodes EXCEPT ![level] = BackLink(nodes[level], nodes[level + 1])]

LabelingOver ==
    /\ runPc = "labeling"
    /\ \A n \in DOMAIN labelTask : labelTask[n].pc = "done"

\* Whether the level processor embeds the descriptions of this level.
EmbedsLevel == level = 0 \/ level < Len(config.ks) - 1

\* The level returned its nodes to recursive_cluster.
LevelReturns ==
    IF level < 2 THEN level' = level + 1 /\ runPc' = "partition"
    ELSE level' = level /\ runPc' = "outputs"

LabelingDoneEmbed_BeforeLabels ==
    /\ runPc = "labeling"
    /\ EmbedsLevel
    /\ nodes' = BackLinked
    /\ EmbedStarted([i \in 1..Len(nodes[level + 1]) |->
                        nodes[level + 1][i].description])
    /\ runPc' = "embedding"
    /\ labelTask' = <<>>
    /\ labelSemaphore' = 0
    /\ UNCHANGED <<pipeVars, libVars, classifyVars, topics, level, runError, files, df, tables>>

\* gather of the label tasks returned: back-link, then start the embedding.
LabelingDoneEmbed ==
    /\ LabelingOver
    /\ EmbedsLevel
    /\ nodes' = BackLinked
    /\ EmbedStarted([i \in 1..Len(nodes[level + 1]) |->
                        nodes[level + 1][i].description])
    /\ runPc' = "embedding"
    /\ labelTask' = <<>>
    /\ labelSemaphore' = 0
    /\ UNCHANGED <<pipeVars, libVars, classifyVars, topics, level, runError, files, df, tables>>

\* gather of the label tasks returned at the last level: no embedding.
LabelingDoneLast ==
    /\ LabelingOver
    /\ ~EmbedsLevel
    /\ nodes' = [BackLinked EXCEPT
                    ![level + 1] = [i \in 1..Len(@) |->
                        [@[i] EXCEPT !.description_embedding = NoEmbedding]]]
    /\ LevelReturns
    /\ labelTask' = <<>>
    /\ labelSemaphore' = 0
    /\ UNCHANGED <<pipeVars, libVars, classifyVars, embedVars, topics, runError, files, df, tables>>

ZipEmbeddings_Dropped(level_nodes, embs) == level_nodes

\* for node, emb in zip(nodes, description_embeddings)
ZipEmbeddings(level_nodes, embs) ==
    [i \in 1..Len(level_nodes) |->
        IF i <= Len(embs)
          THEN [level_nodes[i] EXCEPT !.description_embedding = embs[i]]
          ELSE level_nodes[i]]

\* _embed_descriptions_async returned its list to the level processor.
EmbeddingDone ==
    /\ runPc = "embedding"
    /\ embedOutcome.status = "returned"
    /\ nodes' = [nodes EXCEPT
                    ![level + 1] = ZipEmbeddings(@, embedOutcome.value)]
    /\ LevelReturns
    /\ descriptions' = <<>>
    /\ batchTask' = <<>>
    /\ embedSemaphore' = 0
    /\ embeddings' = <<>>
    /\ embedOutcome' = [status |-> "idle", value |-> <<>>, error |-> NoException]
    /\ UNCHANGED <<pipeVars, libVars, classifyVars, labelVars, topics, runError, files, df, tables>>

RunOnEmbedError_Ignored(pc) == pc

RunOnEmbedError_Swallowed(pc) == "outputs"

\* What recursive_cluster does with an exception of the embedding: nothing
\* catches it, the finally clause closes the client and it propagates; the
\* batch tasks still pending end with the event loop.
RunOnEmbedError(pc) == "raised"

EmbeddingRaises ==
    /\ runPc = "embedding"
    /\ embedOutcome.status = "raised"
    /\ runPc' = RunOnEmbedError(runPc)
    /\ runError' = embedOutcome.error
    /\ descriptions' = <<>>
    /\ batchTask' = <<>>
    /\ embedSemaphore' = 0
    /\ embeddings' = <<>>
    /\ UNCHANGED <<pipeVars, libVars, classifyVars, embedOutcome, labelVars, topics,
                   level, nodes, files, df, tables>>

\* An id cell of an output table: the id, or the empty marker for None.
IdCell(id) == IF id = NoParent THEN "" ELSE ToString(id)

\* topic_to_l0.get(idx): the dict keeps the last node that lists idx.
TopicToL0(l0_nodes, idx) ==
    LET holders == {i \in 1..Len(l0_nodes) :
                      InSeq(idx, l0_nodes[i].children_refs)}
    IN  IF holders = {} THEN NoParent ELSE l0_nodes[Max(holders)].node_id

ParentHop_Truthy(level_nodes, id) ==
    LET entries == {i \in 1..Len(level_nodes) :
                      /\ level_nodes[i].node_id = id
                      /\ level_nodes[i].parent_id # NoParent}
    IN  IF id = NoParent \/ id = 0 \/ entries = {} THEN NoParent
        ELSE level_nodes[Max(entries)].parent_id

\* l0_to_l1.get(id) if id is not None else None (and l1_to_l2 alike): the
\* dict has an entry for each node whose parent_id is not None.
ParentHop(level_nodes, id) ==
    LET entries == {i \in 1..Len(level_nodes) :
                      /\ level_nodes[i].node_id = id
                      /\ level_nodes[i].parent_id # NoParent}
    IN  IF id = NoParent \/ entries = {} THEN NoParent
        ELSE level_nodes[Max(entries)].parent_id

\* (level, id) in node_lookup, and node_lookup[(level, id)]
InLookup(level_nodes, id) ==
    id # NoParent /\ \E i \in 1..Len(level_nodes) : level_nodes[i].node_id = id

Lookup(level_nodes, id) ==
    level_nodes[Max({i \in 1..Len(level_nodes) : level_nodes[i].node_id = id})]

LookupLabel(level_nodes, id) ==
    IF InLookup(level_nodes, id) THEN Lookup(level_nodes, id).label ELSE ""

\* _build_assignments(all_nodes, topics): one record per entry of topics.
BuildAssignments(all_nodes, tpcs) ==
    [r \in 1..Len(tpcs) |->
        LET l0_id == TopicToL0(all_nodes[1], r - 1)
            l1_id == ParentHop(all_nodes[1], l0_id)
            l2_id == ParentHop(all_nodes[2], l1_id)
        IN  [topic_index |-> r - 1,
             cluster_L0_id |-> IdCell(l0_id),
             cluster_L0_label |-> LookupLabel(all_nodes[1], l0_id),
             cluster_L1_id |-> IdCell(l1_id),
             cluster_L1_label |-> LookupLabel(all_nodes[2], l1_id),
             cluster_L2_id |-> IdCell(l2_id),
             cluster_L2_label |-> LookupLabel(all_nodes[3], l2_id)]]

\* The four cells _build_augmented_dataframe gives a row for one level.
AugmentedCells(level_nodes, id) ==
    IF InLookup(level_nodes, id)
      THEN LET node == Lookup(level_nodes, id)
           IN  [id |-> ToString(id), label |-> node.label,
                description |-> node.description,
                description_embedding |->
                    IF node.description_embedding = NoEmbedding THEN ""
                    ELSE node.description_embedding]
      ELSE [id |-> "", label |-> "", description |-> "",
            description_embedding |-> ""]

AugmentedTopicToL0_ByPosition(l0_nodes, valid_indices, original_idx) ==
    LET holders == {i \in 1..Len(l0_nodes) :
                      InSeq(original_idx, l0_nodes[i].children_refs)}
    IN  IF holders = {} THEN NoParent ELSE l0_nodes[Max(holders)].node_id

\* topic_to_l0 of _build_augmented_dataframe, keyed by the original row
\* index valid_indices[filtered_topic_idx].
AugmentedTopicToL0(l0_nodes, valid_indices, original_idx) ==
    LET holders == {i \in 1..Len(l0_nodes) :
                      \E j \in 1..Len(l0_nodes[i].children_refs) :
                          LET filtered_topic_idx == l0_nodes[i].children_refs[j]
                          IN  /\ filtered_topic_idx < Len(valid_indices)
                              /\ valid_indices[filtered_topic_idx + 1]
                                    = original_idx}
    IN  IF holders = {} THEN NoParent ELSE l0_nodes[Max(holders)].node_id

\* _build_augmented_dataframe(df, all_nodes, valid_indices): the original
\* rows with the cells of the three levels, blank unless the row is valid.
BuildAugmented(d, all_nodes, valid_indices) ==
    [r \in 1..Len(d) |->
        LET valid == InSeq(r - 1, valid_indices)
            l0_id == IF valid
                       THEN AugmentedTopicToL0(all_nodes[1], valid_indices, r - 1)
                       ELSE NoParent
            l1_id == ParentHop(all_nodes[1], l0_id)
            l2_id == ParentHop(all_nodes[2], l1_id)
        IN  [Topic |-> d[r].Topic, Topic_Embedding |-> d[r].Topic_Embedding,
             L0 |-> AugmentedCells(all_nodes[1], l0_id),
             L1 |-> AugmentedCells(all_nodes[2], l1_id),
             L2 |-> AugmentedCells(all_nodes[3], l2_id)]]

\* The nodes, assignments and augmented tables are saved (the path of the
\* augmented table is given).
WriteOutputs ==
    /\ runPc = "outputs"
    /\ files' = {"nodes", "assignments", "augmented"}
    /\ \E valid_indices \in {ValidIndices(df)} :
          tables' = [assignments |-> BuildAssignments(nodes, topics),
                     augmented |-> BuildAugmented(df, nodes, valid_indices)]
    /\ runPc' = "done"
    /\ UNCHANGED <<pipeVars, libVars, classifyVars, embedVars, labelVars, topics, level,
                   runError, nodes, df>>

----------------------------------------------------------------------------
(* Spec: a run of recursive_cluster.                                       *)

Topic(i) == "t" \o ToString(i)

\* The topic lists of the runs: all topics distinct, or the last one a
\* repetition of the first.
RunTopics ==
    {[i \in 1..MaxTopics |-> Topic(i)],
     [i \in 1..MaxTopics |-> Topic(IF i = MaxTopics THEN 1 ELSE i)]}

\* The level counts, retry budgets and batch sizes of the runs.
RunKs == {<<2, 2, 1>>, <<2, 1, 1>>, <<2, 1>>, <<2, 3, 1>>, <<2, 1, 1, 1>>}
RunRetries == {0, 1}
RunBatchSizes == {1, 2}

Init ==
    /\ openaiNames \in Libraries
    /\ labelService = UsualAnswers
    /\ \E ks \in RunKs, r \in RunRetries, bs \in RunBatchSizes :
          config = [DefaultConfig EXCEPT !.ks = ks, !.max_retries = r,
                                         !.embedding_batch_size = bs,
                                         !.embedding_concurrency = 2,
                                         !.deepseek_concurrency = 2]
    /\ exc = NoException
    /\ verdict = "unclassified"
    /\ IdleEmbedding
    /\ topics \in RunTopics
    /\ level = 0
    /\ runPc = "partition"
    /\ runError = NoException
    /\ nodes = <<<<>>, <<>>, <<>>>>
    /\ labelTask = <<>>
    /\ labelSemaphore = 0
    /\ files = {}
    /\ df = DfOf(topics)
    /\ tables = NoTables
    /\ stage = StageIdle
    /\ IdleStages

Next ==
    \/ Partition
    \/ PartitionRaises
    \/ \E n \in DOMAIN labelTask : LabelAdmit(n)
    \/ \E n \in DOMAIN labelTask : LabelCallReturns(n)
    \/ \E n \in DOMAIN labelTask, e \in LabelFailures : LabelCallFails(n, e)
    \/ \E n \in DOMAIN labelTask : LabelBackoffElapses(n)
    \/ LabelingDoneEmbed
    \/ LabelingDoneLast
    \/ \E b \in DOMAIN batchTask : AdmitBatch(b)
    \/ \E b \in DOMAIN batchTask : EmbedCallReturns(b)
    \/ \E b \in DOMAIN batchTask, e \in EmbedFailures,
          jitter \in 0..config.base_delay : EmbedCallFails(b, e, jitter)
    \/ \E b \in DOMAIN batchTask : BackoffElapses(b)
    \/ EmbedReturns
    \/ EmbeddingDone
    \/ EmbeddingRaises
    \/ WriteOutputs

Spec == Init /\ [][Next]_vars

----------------------------------------------------------------------------
(* SpecCaps: runs over the two concurrency limits of the configuration.    *)

InitCaps ==
    /\ openaiNames \in Libraries
    /\ labelService = UsualAnswers
    /\ \E ks \in {<<2, 1, 1>>, <<2, 1>>}, ec \in 1..MaxConcurrency,
          dc \in 1..MaxConcurrency :
          config = [DefaultConfig EXCEPT !.ks = ks, !.max_retries = 1,
                                         !.embedding_batch_size = 1,
                                         !.embedding_concurrency = ec,
                                         !.deepseek_concurrency = dc]
    /\ exc = NoException
    /\ verdict = "unclassified"
    /\ IdleEmbedding
    /\ topics = [i \in 1..MaxTopics |-> Topic(i)]
    /\ level = 0
    /\ runPc = "partition"
    /\ runError = NoException
    /\ nodes = <<<<>>, <<>>, <<>>>>
    /\ labelTask = <<>>
    /\ labelSemaphore = 0
    /\ files = {}
    /\ df = DfOf(topics)
    /\ tables = NoTables
    /\ stage = StageIdle
    /\ IdleStages

SpecCaps == InitCaps /\ [][Next]_vars

----------------------------------------------------------------------------
(* SpecLive: runs of three levels over the two concurrency limits, with    *)
(* the scheduling of the event loop.                                       *)

\* The level counts and the concurrency limits of the runs: three levels
\* with both limits 1 and with both limits 2, and two configured levels.
LiveRuns ==
    {[ks |-> <<2, 1, 1>>, ec |-> c, dc |-> c] : c \in {1, 2}}
        \cup {[ks |-> <<2, 1>>, ec |-> 1, dc |-> 1]}

InitLive ==
    /\ openaiNames = OptionalNames \ {"ServiceUnavailableError"}
    /\ labelService = UsualAnswers
    /\ \E run \in LiveRuns :
          config = [DefaultConfig EXCEPT !.ks = run.ks, !.max_retries = 1,
                                         !.embedding_batch_size = 1,
                                         !.embedding_concurrency = run.ec,
                                         !.deepseek_concurrency = run.dc]
    /\ exc = NoException
    /\ verdict = "unclassified"
    /\ IdleEmbedding
    /\ topics = <<"t1", "t2">>
    /\ level = 0
    /\ runPc = "partition"
    /\ runError = NoException
    /\ nodes = <<<<>>, <<>>, <<>>>>
    /\ labelTask = <<>>
    /\ labelSemaphore = 0
    /\ files = {}
    /\ df = DfOf(topics)
    /\ tables = NoTables
    /\ stage = StageIdle
    /\ IdleStages

\* The event loop runs what is ready: a task that can be admitted is
\* admitted, a call in flight returns or raises, a sleep ends, and a
\* coroutine whose awaited result is ready goes on.
SpecLive == InitLive /\ [][Next]_vars /\ WF_vars(Next)

----------------------------------------------------------------------------
(* SpecOutputs: runs over input tables with rows that have no vector.      *)

\* Topic_Embedding cells without a vector: a missing value, text that is
\* not JSON, an empty list, a JSON value that is not a list.
InvalidCells == {"NaN", "oops", "[]", "{}"}

\* The input tables of the runs: MaxRows rows of distinct topics, the rows
\* of bad holding the cell c instead of their vector.
RunTables ==
    {[i \in 1..MaxRows |->
        [Topic |-> Topic(i),
         Topic_Embedding |-> IF i \in bad THEN c ELSE VectorCell(Topic(i))]] :
     bad \in SUBSET (1..MaxRows), c \in InvalidCells}

InitOutputs ==
    /\ openaiNames \in Libraries
    /\ labelService = UsualAnswers
    /\ config = [DefaultConfig EXCEPT !.ks = <<2, 1, 1>>, !.max_retries = 1,
                                      !.embedding_batch_size = 2,
                                      !.embedding_concurrency = 2,
                                      !.deepseek_concurrency = 2,
                                      !.max_items_per_prompt = 1]
    /\ exc = NoException
    /\ verdict = "unclassified"
    /\ IdleEmbedding
    /\ df \in RunTables
    /\ topics = FilterTopics(df)
    /\ level = 0
    /\ runPc = "partition"
    /\ runError = NoException
    /\ nodes = <<<<>>, <<>>, <<>>>>
    /\ labelTask = <<>>
    /\ labelSemaphore = 0
    /\ files = {}
    /\ tables = NoTables
    /\ stage = StageIdle
    /\ IdleStages

SpecOutputs == InitOutputs /\ [][Next]_vars

----------------------------------------------------------------------------
(* SpecAssign: _build_assignments applied to node lists with missing hops. *)

\* A labeled node of the given level, id, parent and children.
AssignNode(lvl, id, parent, refs) ==
    [ClusterNode(lvl, id, 2, refs) EXCEPT
        !.parent_id = parent,
        !.label = "L" \o ToString(lvl) \o "_" \o ToString(id),
        !.description = "D" \o ToString(lvl) \o "_" \o ToString(id)]

\* The topic indices a placement h (topic position -> node id, or NoParent
\* for a topic no node lists) gives to the node id.
PlacedIn(h, id) == SortedSeq({i - 1 : i \in {j \in DOMAIN h : h[j] = id}})

\* Node lists of three levels: two level-0 nodes holding some of the
\* topics, two level-1 nodes and one level-2 node, each lower node with a
\* parent_id of the level above or none.
AssignInputs ==
    {<<<<AssignNode(0, 0, p[1], PlacedIn(h, 0)),
         AssignNode(0, 1, p[2], PlacedIn(h, 1))>>,
       <<AssignNode(1, 0, q[1], <<0>>), AssignNode(1, 1, q[2], <<1>>)>>,
       <<AssignNode(2, 0, NoParent, <<0, 1>>)>>>> :
     h \in [1..MaxTopics -> {NoParent, 0, 1}],
     p \in [1..2 -> {NoParent, 0, 1}],
     q \in [1..2 -> {NoParent, 0}]}

InitAssign ==
    /\ openaiNames \in Libraries
    /\ labelService = UsualAnswers
    /\ config = DefaultConfig
    /\ exc = NoException
    /\ verdict = "unclassified"
    /\ IdleEmbedding
    /\ topics = [i \in 1..MaxTopics |-> Topic(i)]
    /\ level = 2
    /\ runPc = "outputs"
    /\ runError = NoException
    /\ nodes \in AssignInputs
    /\ labelTask = <<>>
    /\ labelSemaphore = 0
    /\ files = {}
    /\ df = DfOf(topics)
    /\ tables = NoTables
    /\ stage = StageIdle
    /\ IdleStages

\* assignments_df = _build_assignments(all_nodes, topics)
ApplyBuildAssignments ==
    /\ runPc = "outputs"
    /\ tables' = [tables EXCEPT !.assignments = BuildAssignments(nodes, topics)]
    /\ runPc' = "assigned"
    /\ UNCHANGED <<pipeVars, libVars, classifyVars, embedVars, labelVars, topics, level,
                   runError, nodes, files, df>>

NextAssign == ApplyBuildAssignments

SpecAssign == InitAssign /\ [][NextAssign]_vars

----------------------------------------------------------------------------
(* SpecPipeline: process_clustering of src/pipeline/cluster.py, the        *)
(* clustering stage of the pipeline, on input tables with and without      *)
(* vectors.                                                                *)

\* parse_embedding: None for a missing cell or text that is not JSON, the
\* loaded value otherwise.
ParseEmbedding(emb_str) ==
    IF emb_str \in {"NaN", "null", ""} THEN NoEmbedding
    ELSE LET emb == JsonLoads(emb_str)
         IN  IF ~emb.ok THEN NoEmbedding
             ELSE IF emb.list THEN emb.items
             ELSE emb_str

\* json.dumps of a list of numbers; the empty list gives "[]".
JsonDumps(items) == "[" \o items \o "]"

\* The ClusterConfig values of the runs.
StageConfigs ==
    {[l2_clusters |-> 1, l1_clusters |-> 2, l0_clusters |-> 2],
     [l2_clusters |-> 2, l1_clusters |-> 5, l0_clusters |-> 5]}

\* The input tables: MaxStageRows rows of distinct topics, the rows of bad
\* holding a cell without a vector.
StageTables ==
    {[i \in 1..MaxStageRows |->
        [Topic |-> Topic(i),
         Topic_Embedding |-> IF i \in bad THEN c ELSE VectorCell(Topic(i))]] :
     bad \in SUBSET (1..MaxStageRows), c \in {"NaN", "oops"}}

\* valid_df = df[valid_mask]: the positions of the rows parse_embedding
\* gave a value for.
ValidRows(d) ==
    SortedSeq({j \in 1..Len(d) :
                  ParseEmbedding(d[j].Topic_Embedding) # NoEmbedding})

ClusterRange_Short(n_clusters) == 0..(n_clusters - 2)

\* range(config.l2_clusters), range(config.l1_clusters): the ids the
\* sub-clustering loops visit.
ClusterRange(n_clusters) == 0..(n_clusters - 1)

\* valid_df["L1_cluster_id"] = -1: the id of a row no pass has reached.
Unassigned == -1

\* The sub-clustering loops over the groups of the visited ids: the column
\* starts at -1 on every row, a group smaller than k gets the id 0 on all
\* its rows, a larger one gets the labels of KMeans(n_clusters=k) on its
\* vectors.
SubClusterIds(vectors, groups, k) ==
    LET n == Len(vectors)
    IN  {f \in [1..n -> {Unassigned} \cup ClusterRange(k)] :
           /\ \A i \in (1..n) \ UNION groups : f[i] = Unassigned
           /\ \A G \in groups :
                 IF Cardinality(G) < k THEN \A i \in G : f[i] = 0
                 ELSE LET idx == SortedSeq(G)
                      IN  [j \in 1..Len(idx) |-> f[idx[j]]] \in
                             KMeansLabels([j \in 1..Len(idx) |->
                                              vectors[idx[j]]], k)}

\* The ids the three clustering passes can give the rows of valid_df.
ClusterIds(d, cfg) ==
    LET rows == ValidRows(d)
        n == Len(rows)
        vectors == [j \in 1..n |-> ParseEmbedding(d[rows[j]].Topic_Embedding)]
    IN  {[j \in 1..n |-> <<l2[j], l1[j], l0[j]>>] :
            <<l2, l1, l0>> \in
              {t \in KMeansLabels(vectors, Min(cfg.l2_clusters, n))
                     \X [1..n -> {Unassigned} \cup ClusterRange(cfg.l1_clusters)]
                     \X [1..n -> {Unassigned} \cup ClusterRange(cfg.l0_clusters)] :
                 /\ t[2] \in SubClusterIds(vectors,
                        {{j \in 1..n : t[1][j] = l2_id} :
                             l2_id \in ClusterRange(cfg.l2_clusters)},
                        cfg.l1_clusters)
                 /\ t[3] \in SubClusterIds(vectors,
                        {{j \in 1..n : t[1][j] = l2_id /\ t[2][j] = l1_id} :
                             l2_id \in ClusterRange(cfg.l2_clusters),
                             l1_id \in ClusterRange(cfg.l1_clusters)},
                        cfg.l0_clusters)}}

\* unique() and drop_duplicates(): the id prefixes of a depth, in the order
\* of their first row.
RECURSIVE UniquePrefixes(_, _, _)
UniquePrefixes(ids, depth, j) ==
    IF j > Len(ids) THEN <<>>
    ELSE LET key == SubSeq(ids[j], 1, depth)
         IN  IF \E i \in 1..(j - 1) : SubSeq(ids[i], 1, depth) = key
               THEN UniquePrefixes(ids, depth, j + 1)
             ELSE <<key>> \o UniquePrefixes(ids, depth, j + 1)

\* The level name of the clusters keyed by depth ids.
LevelName(key) ==
    IF Len(key) = 1 THEN "L2" ELSE IF Len(key) = 2 THEN "L1" ELSE "L0"

\* The clusters the three labeling loops visit, in order.
LabelingWork(ids) ==
    UniquePrefixes(ids, 1, 1) \o UniquePrefixes(ids, 2, 1)
        \o UniquePrefixes(ids, 3, 1)

\* valid_df[mask]["Topic"]: the topics of the rows of a cluster.
RECURSIVE MaskedTopics(_, _, _)
MaskedTopics(rows, key, j) ==
    IF j > Len(rows) THEN ""
    ELSE (IF SubSeq(rows[j].ids, 1, Len(key)) = key
            THEN " " \o rows[j].Topic ELSE "")
         \o MaskedTopics(rows, key, j + 1)

\* generate_label, when the service answers: data.get with its defaults.
GenerateLabel(kind, key, rows) ==
    LET prompt == LevelName(key) \o ":" \o MaskedTopics(rows, key, 1)
    IN  [label |-> "L<" \o prompt \o ">",
         description |-> IF kind = "both" THEN "D<" \o prompt \o ">"
                         ELSE "No description"]

\* generate_label, when the call or the parsing raised.
GenerateLabelFallback(key) ==
    [label |-> "Cluster " \o LevelName(key),
     description |-> "Error generating description"]

\* The rows written by to_csv: the cells of the three levels of each row of
\* valid_df, with the description embedding serialised.
OutputRows(rows, results) ==
    [j \in 1..Len(rows) |->
        [Topic |-> rows[j].Topic,
         cells |-> [depth \in 1..3 |->
             LET result == CHOOSE r \in {results[i] : i \in DOMAIN results} :
                               r.key = SubSeq(rows[j].ids, 1, depth)
             IN  [label |-> result.label,
                  description |-> result.description,
                  description_embedding |-> JsonDumps(result.embedding)]]]]

\* The statements after embed_text returned: the cells of the cluster are
\* stored, the loops move to the next cluster, and after the last one the
\* table is saved.
StoreEmbedding(st, embedding) ==
    LET results == Append(st.results,
                      [key |-> Head(st.work),
                       label |-> st.current.label,
                       description |-> st.current.description,
                       embedding |-> embedding])
        rest == Tail(st.work)
    IN  [st EXCEPT !.results = results,
                   !.work = rest,
                   !.current = NoResult,
                   !.pc = IF rest = <<>> THEN "saved" ELSE "labeling",
                   !.output_csv = IF rest = <<>>
                                    THEN OutputRows(st.valid_df, results)
                                  ELSE <<>>]

NotStage ==
    <<libVars, classifyVars, embedVars, labelVars, runVars, topicGen, topicEmbed,
      runner>>

\* process_clustering up to its first await: the table is read and parsed,
\* the three clustering passes run.
ProcessClustering ==
    /\ stage.pc = "start"
    /\ IF ValidRows(df) = <<>>
         THEN stage' = [stage EXCEPT !.pc = "raised"]
       ELSE \E ids \in ClusterIds(df, stage.n_clusters) :
               stage' = [stage EXCEPT
                   !.pc = "labeling",
                   !.valid_df = [j \in 1..Len(ids) |->
                       [Topic |-> df[ValidRows(df)[j]].Topic, ids |-> ids[j]]],
                   !.work = LabelingWork(ids)]
    /\ UNCHANGED NotStage

\* The chat completion of generate_label returns.
GenerateLabelReturns(kind) ==
    /\ stage.pc = "labeling"
    /\ kind \in labelService
    /\ stage' = [stage EXCEPT
           !.pc = "embedding",
           !.current = GenerateLabel(kind, Head(stage.work), stage.valid_df)]
    /\ UNCHANGED NotStage

\* generate_label catches an exception of the call.
GenerateLabelFails ==
    /\ stage.pc = "labeling"
    /\ stage' = [stage EXCEPT
           !.pc = "embedding",
           !.current = GenerateLabelFallback(Head(stage.work))]
    /\ UNCHANGED NotStage

\* The embeddings call of embed_text returns.
EmbedTextReturns ==
    /\ stage.pc = "embedding"
    /\ stage' = StoreEmbedding(stage, EmbeddingOf(stage.current.description))
    /\ UNCHANGED NotStage

\* embed_text catches an exception of the call and returns [].
EmbedTextFails ==
    /\ stage.pc = "embedding"
    /\ stage' = StoreEmbedding(stage, "")
    /\ UNCHANGED NotStage

InitPipeline ==
    /\ openaiNames = OptionalNames
    /\ labelService \in {{"both"}, {"no_description"}}
    /\ config = DefaultConfig
    /\ exc = NoException
    /\ verdict = "unclassified"
    /\ IdleEmbedding
    /\ topics = <<>>
    /\ level = 0
    /\ runPc = "idle"
    /\ runError = NoException
    /\ nodes = <<<<>>, <<>>, <<>>>>
    /\ labelTask = <<>>
    /\ labelSemaphore = 0
    /\ files = {}
    /\ df \in StageTables
    /\ tables = NoTables
    /\ \E cfg \in StageConfigs :
          stage = [StageIdle EXCEPT !.pc = "start", !.n_clusters = cfg]
    /\ IdleStages

NextPipeline ==
    \/ ProcessClustering
    \/ \E kind \in UsualAnswers : GenerateLabelReturns(kind)
    \/ GenerateLabelFails
    \/ EmbedTextReturns
    \/ EmbedTextFails

SpecPipeline == InitPipeline /\ [][NextPipeline]_vars

----------------------------------------------------------------------------
(* SpecGen: _generate_topics_async of src/topicGeneration.py, one task per *)
(* row of the input table.                                                 *)

\* str.strip(), on texts whose only whitespace is the space.
RECURSIVE Strip(_)
Strip(text) ==
    IF Len(text) = 0 THEN text
    ELSE IF SubSeq(text, 1, 1) = " " THEN Strip(SubSeq(text, 2, Len(text)))
    ELSE IF SubSeq(text, Len(text), Len(text)) = " "
      THEN Strip(SubSeq(text, 1, Len(text) - 1))
    ELSE text

\* results = [None] * total: the entry of a row no task has written.
NoTopic == "None"

\* message.content of the answer to a conversation: a summary with blanks
\* around it, or no content.
TopicContents(conversation) == {" T<" \o conversation \o "> ", NoTopic}

\* (message.content or "").strip()
TopicOf(content) == IF content = NoTopic THEN "" ELSE Strip(content)

\* The Conversation column of the input tables: MaxGenRows rows of distinct
\* conversations, the rows of blank holding only a space.
GenTables ==
    {[i \in 1..MaxGenRows |->
        IF i \in blank THEN " " ELSE " c" \o ToString(i) \o " "] :
     blank \in SUBSET (1..MaxGenRows)}

NewRowTask == [pc |-> "waiting", attempt |-> 0, calls |-> 0, outcome |-> ""]

\* _should_retry of topicGeneration.py: the same classes and statuses as
\* that of the engine, looked up in the same library.
ShouldRetryTopic(e) == _should_retry(e)

StoreTopic_NextFree(results, index, topic) ==
    LET free == {i \in 1..Len(results) : results[i] = NoTopic}
    IN  [results EXCEPT ![CHOOSE i \in free : \A j \in free : i <= j] = topic]

\* process_row: results[index] = topic
StoreTopic(results, index, topic) == [results EXCEPT ![index] = topic]

\* process_row from the return or the exception of _fetch_topic to the end
\* of the async with block: the topic is stored and the permit released.
RowEnds(g, i, topic, outcome) ==
    [g EXCEPT !.task[i].pc = "done",
              !.task[i].outcome = outcome,
              !.results = StoreTopic(@, i, topic),
              !.semaphore = @ + 1]

NotGen ==
    <<libVars, classifyVars, embedVars, labelVars, runVars, stage, topicEmbed,
      runner>>

\* async with semaphore, then _fetch_topic up to its first await: a blank
\* conversation returns "Topic not found" without a call.
RowAdmit(i) ==
    /\ topicGen.pc = "running"
    /\ topicGen.task[i].pc = "waiting"
    /\ topicGen.semaphore > 0
    /\ \A h \in 1..(i - 1) : topicGen.task[h].pc # "waiting"
    /\ \E g \in {[topicGen EXCEPT !.semaphore = @ - 1]} :
          topicGen' =
             IF Strip(topicGen.rows[i]) = ""
               THEN RowEnds(g, i, "Topic not found", "blank")
               ELSE [g EXCEPT !.task[i].pc = "calling"]
    /\ UNCHANGED NotGen

\* client.chat.completions.create returns.
TopicCallReturns(i, content) ==
    /\ topicGen.pc = "running"
    /\ topicGen.task[i].pc = "calling"
    /\ content \in TopicContents(Strip(topicGen.rows[i]))
    /\ topicGen' = RowEnds([topicGen EXCEPT !.task[i].calls = @ + 1], i,
                           TopicOf(content), "answered")
    /\ UNCHANGED NotGen

\* The exceptions the text-generation service raises in the model.
TopicFailures ==
    {e \in Exceptions(openaiNames) :
        \/ e.cls = "RateLimitError"
        \/ e.cls = "APIStatusError" /\ e.status_code = 401}

\* The except clause of _fetch_topic: it re-raises, and process_row stores
\* the empty topic, or it sleeps before the next attempt.
TopicCallFails(i, e) ==
    /\ topicGen.pc = "running"
    /\ topicGen.task[i].pc = "calling"
    /\ \E g \in {[topicGen EXCEPT !.task[i].calls = @ + 1]} :
          topicGen' =
             IF ~ShouldRetryTopic(e)
                   \/ topicGen.task[i].attempt = topicGen.max_retries
               THEN RowEnds(g, i, "", "failed")
               ELSE [g EXCEPT !.task[i].pc = "sleeping"]
    /\ UNCHANGED NotGen

\* asyncio.sleep of the backoff returns: the loop starts the next attempt.
TopicBackoffElapses(i) ==
    /\ topicGen.pc = "running"
    /\ topicGen.task[i].pc = "sleeping"
    /\ topicGen' = [topicGen EXCEPT !.task[i].pc = "calling",
                                    !.task[i].attempt = @ + 1]
    /\ UNCHANGED NotGen

\* gather returned: df["Topic"] = results; df.to_csv(output_csv)
GenWrites ==
    /\ topicGen.pc = "running"
    /\ \A i \in DOMAIN topicGen.task : topicGen.task[i].pc = "done"
    /\ topicGen' = [topicGen EXCEPT
           !.pc = "written",
           !.output_csv = [i \in 1..Len(topicGen.rows) |->
               [Conversation |-> topicGen.rows[i],
                Topic |-> topicGen.results[i]]]]
    /\ UNCHANGED NotGen

\* _generate_topics_async once its tasks are created.
InitGen ==
    /\ openaiNames \in Libraries
    /\ labelService = UsualAnswers
    /\ config = DefaultConfig
    /\ exc = NoException
    /\ verdict = "unclassified"
    /\ IdleEmbedding
    /\ topics = <<>>
    /\ level = 0
    /\ runPc = "idle"
    /\ runError = NoException
    /\ nodes = <<<<>>, <<>>, <<>>>>
    /\ labelTask = <<>>
    /\ labelSemaphore = 0
    /\ files = {}
    /\ df = <<>>
    /\ tables = NoTables
    /\ stage = StageIdle
    /\ topicEmbed = EmbedTopicsIdle
    /\ runner = RunnerIdle
    /\ \E rows \in GenTables, concurrency \in 0..MaxConcurrency,
          max_retries \in {0, 1} :
          topicGen = [pc |-> "running", rows |-> rows,
                      task |-> [i \in 1..Len(rows) |-> NewRowTask],
                      semaphore |-> IF concurrency > 1 THEN concurrency ELSE 1,
                      results |-> [i \in 1..Len(rows) |-> NoTopic],
                      output_csv |-> <<>>,
                      concurrency |-> concurrency,
                      max_retries |-> max_retries]

NextGen ==
    \/ \E i \in DOMAIN topicGen.task : RowAdmit(i)
    \/ \E i \in DOMAIN topicGen.task :
          \E content \in TopicContents(Strip(topicGen.rows[i])) :
             TopicCallReturns(i, content)
    \/ \E i \in DOMAIN topicGen.task, e \in TopicFailures : TopicCallFails(i, e)
    \/ \E i \in DOMAIN topicGen.task : TopicBackoffElapses(i)
    \/ GenWrites

SpecGen == InitGen /\ [][NextGen]_vars

----------------------------------------------------------------------------
(* SpecEmbedTopics: embed_topics of src/pipeline/embed_topics.py, one task *)
(* per batch of distinct topics.                                           *)

\* The stripped topics of the model, in the order sorted() gives them.
TopicOrder == <<"a", "b">>

\* The cells of the Topic column after fillna("").astype(str): blank ones,
\* and topics with and without blanks around them.
TopicCells == {" ", "a", " a", "b "}

TopicTables == [1..MaxEmbedRows -> TopicCells]

\* _normalise_topics: sorted({topic.strip() for topic in topics
\*                            if topic and topic.strip()})
NormaliseTopics(raw) ==
    LET kept == {Strip(raw[i]) : i \in {j \in 1..Len(raw) : Strip(raw[j]) # ""}}
        idx  == SortedSeq({i \in 1..Len(TopicOrder) : TopicOrder[i] \in kept})
    IN  [j \in 1..Len(idx) |-> TopicOrder[idx[j]]]

\* unique_topics[i : i + batch_size] for i in range(0, len, batch_size)
TopicBatches(unique_topics, batch_size) ==
    LET n == (Len(unique_topics) + batch_size - 1) \div batch_size
    IN  [b \in 1..n |->
           SubSeq(unique_topics, (b - 1) * batch_size + 1,
                  Min(b * batch_size, Len(unique_topics)))]

\* The embedding the service computes for one input.
TopicVector(topic) ==
    <<Len(topic), CHOOSE i \in 1..Len(TopicOrder) : TopicOrder[i] = topic>>

\* resp.data: one embedding per input, in the order of the inputs.
EmbeddingsCreate(batch_inputs) ==
    [j \in 1..Len(batch_inputs) |-> TopicVector(batch_inputs[j])]

StoreVectors_Reversed(topic_vectors, batch, vectors) ==
    {p \in topic_vectors : ~InSeq(p.topic, batch)}
      \cup {[topic |-> batch[j], vector |-> vectors[Len(batch) + 1 - j]] :
            j \in 1..Len(batch)}

\* process_batch: for topic, vector in zip(batch, vectors):
\*                    embeddings[topic] = vector
StoreVectors(topic_vectors, batch, vectors) ==
    {p \in topic_vectors : ~InSeq(p.topic, batch)}
      \cup {[topic |-> batch[j], vector |-> vectors[j]] :
            j \in 1..Min(Len(batch), Len(vectors))}

\* json.dumps of a list of numbers
RECURSIVE DumpNumbers(_)
DumpNumbers(vector) ==
    IF Len(vector) = 0 THEN ""
    ELSE IF Len(vector) = 1 THEN ToString(vector[1])
    ELSE ToString(vector[1]) \o ", " \o DumpNumbers(Tail(vector))

DumpVector(vector) == "[" \o DumpNumbers(vector) \o "]"

\* key = topic.strip(); vector = embeddings.get(key) if key else None;
\* json.dumps(vector) if vector else "null"
SerialiseTopic(topic_vectors, topic) ==
    LET key   == Strip(topic)
        found == {p.vector : p \in {q \in topic_vectors : q.topic = key}}
    IN  IF key = "" \/ found = {} THEN "null"
        ELSE LET vector == CHOOSE v \in found : TRUE
             IN  IF Len(vector) = 0 THEN "null" ELSE DumpVector(vector)

NewTopicBatchTask == [pc |-> "waiting", attempt |-> 0, calls |-> 0]

NotTopicEmbed ==
    <<libVars, classifyVars, embedVars, labelVars, runVars, stage, topicGen,
      runner>>

\* async with semaphore, then _embed_batch up to the request.
TopicBatchAdmit(b) ==
    /\ topicEmbed.pc = "running"
    /\ topicEmbed.task[b].pc = "waiting"
    /\ topicEmbed.semaphore > 0
    /\ \A h \in 1..(b - 1) : topicEmbed.task[h].pc # "waiting"
    /\ topicEmbed' = [topicEmbed EXCEPT !.semaphore = @ - 1,
                                        !.task[b].pc = "calling"]
    /\ UNCHANGED NotTopicEmbed

\* client.embeddings.create returns: the vectors are stored under their
\* topics and the permit is released.
TopicBatchReturns(b) ==
    /\ topicEmbed.pc = "running"
    /\ topicEmbed.task[b].pc = "calling"
    /\ \E batch \in {topicEmbed.batches[b]} :
          topicEmbed' = [topicEmbed EXCEPT
              !.task[b].pc = "done",
              !.task[b].calls = @ + 1,
              !.sent = Append(@, batch),
              !.embeddings = StoreVectors(@, batch, EmbeddingsCreate(batch)),
              !.semaphore = @ + 1]
    /\ UNCHANGED NotTopicEmbed

\* The except clause of _embed_batch: it sleeps before the next attempt, or
\* re-raises; process_batch logs and re-raises, and gather passes the
\* exception to embed_topics, which writes nothing.
TopicBatchFails(b, e) ==
    /\ topicEmbed.pc = "running"
    /\ topicEmbed.task[b].pc = "calling"
    /\ \E g \in {[topicEmbed EXCEPT !.task[b].calls = @ + 1,
                                    !.sent = Append(@, topicEmbed.batches[b])]} :
          topicEmbed' =
             IF ~_should_retry(e)
                   \/ topicEmbed.task[b].attempt = topicEmbed.max_retries
               THEN [g EXCEPT !.pc = "failed", !.task[b].pc = "failed",
                              !.semaphore = @ + 1]
               ELSE [g EXCEPT !.task[b].pc = "sleeping"]
    /\ UNCHANGED NotTopicEmbed

\* asyncio.sleep of the backoff returns: the loop starts the next attempt.
TopicBatchBackoffElapses(b) ==
    /\ topicEmbed.pc = "running"
    /\ topicEmbed.task[b].pc = "sleeping"
    /\ topicEmbed' = [topicEmbed EXCEPT !.task[b].pc = "calling",
                                        !.task[b].attempt = @ + 1]
    /\ UNCHANGED NotTopicEmbed

\* gather returned: the rows are serialised and the table written.
EmbedTopicsWrites ==
    /\ topicEmbed.pc = "running"
    /\ \A b \in DOMAIN topicEmbed.task : topicEmbed.task[b].pc = "done"
    /\ topicEmbed' = [topicEmbed EXCEPT
           !.pc = "written",
           !.output_csv = [i \in 1..Len(topicEmbed.raw_topics) |->
               [Topic |-> topicEmbed.raw_topics[i],
                Topic_Embedding |->
                    SerialiseTopic(topicEmbed.embeddings,
                                   topicEmbed.raw_topics[i])]]]
    /\ UNCHANGED NotTopicEmbed

\* embed_topics once its tasks are created.
InitEmbedTopics ==
    /\ openaiNames \in Libraries
    /\ labelService = UsualAnswers
    /\ config = DefaultConfig
    /\ exc = NoException
    /\ verdict = "unclassified"
    /\ IdleEmbedding
    /\ topics = <<>>
    /\ level = 0
    /\ runPc = "idle"
    /\ runError = NoException
    /\ nodes = <<<<>>, <<>>, <<>>>>
    /\ labelTask = <<>>
    /\ labelSemaphore = 0
    /\ files = {}
    /\ df = <<>>
    /\ tables = NoTables
    /\ stage = StageIdle
    /\ topicGen = GenIdle
    /\ runner = RunnerIdle
    /\ \E raw \in TopicTables, batch_size \in 1..MaxBatchSize,
          concurrency \in 0..MaxConcurrency, max_retries \in {0, 1} :
          \E batches \in {TopicBatches(NormaliseTopics(raw), batch_size)} :
             topicEmbed = [pc |-> "running", raw_topics |-> raw,
                           batches |-> batches,
                           task |-> [b \in 1..Len(batches) |-> NewTopicBatchTask],
                           semaphore |-> IF concurrency > 1 THEN concurrency
                                         ELSE 1,
                           embeddings |-> {}, sent |-> <<>>,
                           output_csv |-> <<>>,
                           batch_size |-> batch_size,
                           concurrency |-> concurrency,
                           max_retries |-> max_retries]

NextEmbedTopics ==
    \/ \E b \in DOMAIN topicEmbed.task : TopicBatchAdmit(b)
    \/ \E b \in DOMAIN topicEmbed.task : TopicBatchReturns(b)
    \/ \E b \in DOMAIN topicEmbed.task, e \in TopicFailures :
          TopicBatchFails(b, e)
    \/ \E b \in DOMAIN topicEmbed.task : TopicBatchBackoffElapses(b)
    \/ EmbedTopicsWrites

SpecEmbedTopics == InitEmbedTopics /\ [][NextEmbedTopics]_vars

----------------------------------------------------------------------------
(* SpecRunner: main of src/pipeline/run.py, one step per stage.            *)

\* os.path.join(args.output_dir, name)
PathJoin(output_dir, name) ==
    IF Len(output_dir) = 0 THEN name
    ELSE IF SubSeq(output_dir, Len(output_dir), Len(output_dir)) = "/"
      THEN output_dir \o name
    ELSE output_dir \o "/" \o name

\* parser.parse_args(): an input file, a directory for the intermediate
\* files and the three skip flags.
RunnerArgs ==
    [input : {"in.csv", "prepared.csv"},
     output_dir : {"./output", "out/"},
     skip_generation : BOOLEAN,
     skip_embedding : BOOLEAN,
     skip_clustering : BOOLEAN]

step1_csv == PathJoin(runner.args.output_dir, "step1_topics.csv")
step2_csv == PathJoin(runner.args.output_dir, "step2_embedded.csv")
step3_csv == PathJoin(runner.args.output_dir, "step3_clustered.csv")

\* upsert_to_pinecone writes no file.
NoOutput == ""

\* The stages of main, in the order of its steps.
StageOrder == <<"generate", "embed", "cluster", "upsert">>

\* How a stage called by main can end: it returns, or it raises and main
\* ends with it.
StageOutcomes == {"returned", "raised"}

NotRunner ==
    <<libVars, classifyVars, embedVars, labelVars, runVars, stage, topicGen,
      topicEmbed>>

\* One step of main: the stage is skipped, or called with its input and
\* output files, and main goes on when it returns.
MainStep(name, skipped, input_csv, output_csv, next, outcome) ==
    IF skipped THEN [runner EXCEPT !.pc = next]
    ELSE [runner EXCEPT
             !.pc = IF outcome = "raised" THEN "raised" ELSE next,
             !.calls = Append(@, [stage |-> name,
                                  input_csv |-> input_csv,
                                  output_csv |-> output_csv,
                                  outcome |-> outcome])]

\* Step 1: generate_topics(input_csv=args.input, output_csv=step1_csv)
StepGenerate ==
    /\ runner.pc = "generate"
    /\ \E outcome \in StageOutcomes :
          runner' = MainStep("generate", runner.args.skip_generation,
                             runner.args.input, step1_csv, "embed", outcome)
    /\ UNCHANGED NotRunner

\* Step 2: embed_topics(input_csv=step1_csv if not args.skip_generation
\*                      else args.input, output_csv=step2_csv)
StepEmbed ==
    /\ runner.pc = "embed"
    /\ \E outcome \in StageOutcomes :
          runner' = MainStep("embed", runner.args.skip_embedding,
                             IF ~runner.args.skip_generation THEN step1_csv
                             ELSE runner.args.input,
                             step2_csv, "cluster", outcome)
    /\ UNCHANGED NotRunner

\* Step 3: process_clustering(input_csv=step2_csv if not args.skip_embedding
\*                            else args.input, output_csv=step3_csv)
StepCluster ==
    /\ runner.pc = "cluster"
    /\ \E outcome \in StageOutcomes :
          runner' = MainStep("cluster", runner.args.skip_clustering,
                             IF ~runner.args.skip_embedding THEN step2_csv
                             ELSE runner.args.input,
                             step3_csv, "upsert", outcome)
    /\ UNCHANGED NotRunner

\* Step 4: upsert_to_pinecone(input_csv=step3_csv if not
\*                            args.skip_clustering else args.input)
StepUpsert ==
    /\ runner.pc = "upsert"
    /\ \E outcome \in StageOutcomes :
          runner' = MainStep("upsert", FALSE,
                             IF ~runner.args.skip_clustering THEN step3_csv
                             ELSE runner.args.input,
                             NoOutput, "done", outcome)
    /\ UNCHANGED NotRunner

\* main after parse_args and makedirs.
InitRunner ==
    /\ openaiNames = OptionalNames
    /\ labelService = UsualAnswers
    /\ config = DefaultConfig
    /\ exc = NoException
    /\ verdict = "unclassified"
    /\ IdleEmbedding
    /\ topics = <<>>
    /\ level = 0
    /\ runPc = "idle"
    /\ runError = NoException
    /\ nodes = <<<<>>, <<>>, <<>>>>
    /\ labelTask = <<>>
    /\ labelSemaphore = 0
    /\ files = {}
    /\ df = <<>>
    /\ tables = NoTables
    /\ stage = StageIdle
    /\ topicGen = GenIdle
    /\ topicEmbed = EmbedTopicsIdle
    /\ \E args \in RunnerArgs :
          runner = [pc |-> "generate", args |-> args, calls |-> <<>>]

NextRunner ==
    \/ StepGenerate
    \/ StepEmbed
    \/ StepCluster
    \/ StepUpsert

SpecRunner == InitRunner /\ [][NextRunner]_vars

----------------------------------------------------------------------------
(* The classification the specification states: the four named categories, *)
(* or a service API error carrying one of the listed statuses.             *)

ClaimedRetryable(e) ==
    \/ Bases(e.cls) \cap {"RateLimitError", "ServiceUnavailableError",
                          "APITimeoutError", "APIConnectionError"} # {}
    \/ /\ "APIError" \in Bases(e.cls)
       /\ \/ e.status \in RetryableStatuses
          \/ e.status_code \in RetryableStatuses

----------------------------------------------------------------------------
(* Properties.                                                             *)

\* C1: the list _embed_descriptions_async returns has at position i the
\* vector of input string i, whatever the completion order of the batches.
C1_OrderPreserved ==
    embedOutcome.status = "returned" =>
        /\ Len(embedOutcome.value) = Len(descriptions)
        /\ \A i \in 1..Len(descriptions) :
              embedOutcome.value[i] = EmbeddingOf(descriptions[i])

\* C2: once a batch has failed (fatally or with its retries used up) the
\* operation has raised to its caller and has returned no vector list.
C2_FailFast ==
    (\E b \in DOMAIN batchTask : batchTask[b].pc = "failed") =>
        /\ embedOutcome.status = "raised"
        /\ embedOutcome.value = <<>>
        /\ embedOutcome.error # NoException

C2_Witness ==
    /\ embedOutcome.status = "raised"
    /\ \E b, c \in DOMAIN batchTask :
          /\ batchTask[b].pc = "failed"
          /\ batchTask[b].calls = config.max_retries + 1
          /\ batchTask[b].calls > 1
          /\ batchTask[c].pc = "done"
    /\ embeddings # <<>>

\* C6: a batch makes at most max_retries + 1 service calls, and when all of
\* them failed with retryable errors the error raised is that of the last
\* call.
C6_RetryBudget ==
    \A b \in DOMAIN batchTask :
        /\ batchTask[b].calls <= config.max_retries + 1
        /\ (batchTask[b].pc = "failed" /\ _should_retry(batchTask[b].last_error))
              => /\ batchTask[b].calls = config.max_retries + 1
                 /\ batchTask[b].raised = batchTask[b].last_error
                 /\ embedOutcome.error = batchTask[b].last_error

C6_Witness ==
    \E b \in DOMAIN batchTask :
        /\ batchTask[b].pc = "failed"
        /\ batchTask[b].calls = config.max_retries + 1
        /\ config.max_retries >= 2
        /\ _should_retry(batchTask[b].last_error)
        /\ embedOutcome.status = "raised"

\* C7: after a call failed with an error outside the retryable set the loop
\* has ended: no backoff wait and no further call follow.
C7_FatalEndsLoop ==
    \A b \in DOMAIN batchTask :
        (/\ batchTask[b].last_error # NoException
         /\ ~ClaimedRetryable(batchTask[b].last_error))
            => batchTask[b].pc = "failed"

\* C8: _should_retry answers retryable exactly for the errors of the four
\* named categories and the API errors with a listed status.
C8_Classifier ==
    verdict # "unclassified" => (verdict = "retry" <=> ClaimedRetryable(exc))

\* C10, as stated: the wait before the i-th retry has the deterministic
\* part min(max_delay, base_delay * 2^i).
C10_WaitAsStated ==
    \A b \in DOMAIN batchTask :
        batchTask[b].pc = "sleeping" =>
            /\ batchTask[b].wait.delay =
                 Min(config.max_delay,
                     config.base_delay * (2 ^ batchTask[b].calls))
            /\ batchTask[b].wait.jitter \in 0..config.base_delay

\* C10, amended: in the embedding retry loop the wait before the i-th retry
\* is min(max_delay, base_delay * 2^(i-1)) plus a jitter in [0, base_delay].
C10_WaitAmended ==
    \A b \in DOMAIN batchTask :
        batchTask[b].pc = "sleeping" =>
            /\ batchTask[b].wait.delay =
                 Min(config.max_delay,
                     config.base_delay * (2 ^ (batchTask[b].calls - 1)))
            /\ batchTask[b].wait.jitter \in 0..config.base_delay

C10_Witness ==
    \E b \in DOMAIN batchTask :
        /\ batchTask[b].pc = "sleeping"
        /\ batchTask[b].calls = 3
        /\ batchTask[b].wait.delay = config.max_delay
        /\ config.base_delay * 4 > config.max_delay
        /\ batchTask[b].wait.jitter = config.base_delay

\* C3: once an embedding operation has raised, the run raises: no later
\* level is processed (none at all after a failure at level 0) and no
\* output file is written.
C3_EmbedFailureAborts ==
    embedOutcome.status = "raised" =>
        /\ runPc \in {"embedding", "raised"}
        /\ files = {}
        /\ \A l \in (level + 2)..3 : nodes[l] = <<>>
        /\ runPc = "raised" => runError = embedOutcome.error

C3_Witness ==
    /\ runPc = "raised"
    /\ embedOutcome.status = "raised"
    /\ level = 0
    /\ Len(nodes[1]) = 2
    /\ nodes[2] = <<>>
    /\ files = {}

\* C4: the labeler never raises to the level processor: a labeling that
\* gave up stored the pair "Cluster c" / "Cluster c at level l" on its node,
\* and the run does not end with an error of the labeling.
C4_LabelerFallsBack ==
    /\ \A n \in DOMAIN labelTask :
          /\ labelTask[n].pc # "failed"
          /\ (labelTask[n].pc = "done" /\ labelTask[n].fallback) =>
                /\ nodes[level + 1][n].label =
                     "Cluster " \o ToString(nodes[level + 1][n].node_id)
                /\ nodes[level + 1][n].description =
                     "Cluster " \o ToString(nodes[level + 1][n].node_id)
                     \o " at level " \o ToString(level)
    /\ runPc = "raised" =>
          \/ embedOutcome.status = "raised"
          \/ labelTask = <<>> /\ runError.cls \in {"IndexError", "ValueError"}

C4_Witness ==
    /\ runPc = "done"
    /\ files # {}
    /\ nodes[1][1].label = "Cluster 0"
    /\ nodes[2][1].label = "Cluster 0"
    /\ nodes[1][2].label # "Cluster 1"

\* The pair the text-generation service produces for the items of node.
OwnResult(lvl, node) ==
    LET prompt == Prompt(lvl, LabelItemsAt(lvl, node))
    IN  [label |-> "L<" \o prompt \o ">", description |-> "D<" \o prompt \o ">"]

LabeledLevels ==
    {l \in 0..2 :
        /\ nodes[l + 1] # <<>>
        /\ l < level \/ (l = level /\ runPc \notin {"partition", "labeling"})}

\* C5: whatever happened to its siblings, a node whose labeling has ended
\* carries the pair of its own call, or its own fallback pair; and while a
\* sibling has fallen back the labeling phase goes on.
C5_SiblingsUnaffected ==
    /\ \A l \in LabeledLevels : \A n \in 1..Len(nodes[l + 1]) :
          LET node == nodes[l + 1][n]
          IN  [label |-> node.label, description |-> node.description]
                \in {OwnResult(l, node), FallbackResult(node.node_id, l)}
    /\ runPc = "labeling" => \A n \in DOMAIN labelTask :
          LET node == nodes[level + 1][n]
              pair == [label |-> node.label, description |-> node.description]
          IN  IF labelTask[n].pc # "done" THEN pair = NoResult
              ELSE IF labelTask[n].fallback
                THEN pair = FallbackResult(node.node_id, level)
              ELSE pair = OwnResult(level, node)

C5_Witness ==
    /\ runPc = "embedding"
    /\ level = 0
    /\ nodes[1][1].label = "Cluster 0"
    /\ nodes[1][2].label = OwnResult(0, nodes[1][2]).label
    /\ nodes[1][2].description = OwnResult(0, nodes[1][2]).description

\* C9: every backoff wait, of the embedding loop and of the labeling loop,
\* is at most max_delay + base_delay.
C9_WaitBounded ==
    /\ \A b \in DOMAIN batchTask :
          batchTask[b].pc = "sleeping" =>
            batchTask[b].wait.delay + batchTask[b].wait.jitter
              <= config.max_delay + config.base_delay
    /\ \A n \in DOMAIN labelTask :
          labelTask[n].pc = "sleeping" =>
            labelTask[n].wait.delay + labelTask[n].wait.jitter
              <= config.max_delay + config.base_delay

\* The batch tasks holding a permit of the embedding semaphore.
BatchesInFlight ==
    {b \in DOMAIN batchTask : batchTask[b].pc \in {"calling", "sleeping"}}

\* C11: the batch tasks admitted and not yet finished, those sleeping in a
\* backoff included, are at most embedding_concurrency; the free permits
\* are what is left of the limit, and a batch waits only when none is free
\* or an earlier batch is still queued.
C11_EmbedCap ==
    batchTask # <<>> =>
        /\ Cardinality(BatchesInFlight) <= config.embedding_concurrency
        /\ embedSemaphore =
              config.embedding_concurrency - Cardinality(BatchesInFlight)
        /\ (\E b \in DOMAIN batchTask : batchTask[b].pc = "waiting") =>
              \/ embedSemaphore = 0
              \/ ENABLED (\E b \in DOMAIN batchTask : AdmitBatch(b))

C11_Witness ==
    /\ config.embedding_concurrency = 1
    /\ Len(batchTask) = 2
    /\ batchTask[1].pc = "sleeping"
    /\ batchTask[2].pc = "waiting"
    /\ embedSemaphore = 0

\* The label tasks holding a permit of the labeling semaphore.
LabelsInFlight ==
    {n \in DOMAIN labelTask : labelTask[n].pc \in {"calling", "sleeping"}}

\* C12: the label tasks admitted and not yet finished are at most
\* deepseek_concurrency, whatever embedding_concurrency is; each semaphore
\* counts against its own limit only.
C12_LabelCap ==
    /\ labelTask # <<>> =>
          /\ Cardinality(LabelsInFlight) <= config.deepseek_concurrency
          /\ labelSemaphore =
                config.deepseek_concurrency - Cardinality(LabelsInFlight)
    /\ batchTask # <<>> =>
          embedSemaphore =
             config.embedding_concurrency - Cardinality(BatchesInFlight)

C12_Witness ==
    /\ config.deepseek_concurrency = 1
    /\ config.embedding_concurrency = 2
    /\ runPc = "labeling"
    /\ Len(labelTask) = 2
    /\ labelTask[1].pc = "sleeping"
    /\ labelTask[2].pc = "waiting"
    /\ labelSemaphore = 0

\* C13: when the partitioning of a level above 0 begins, and ever after,
\* every node of the level below carries its label and description and,
\* that level not being the topmost configured one, its description
\* embedding.
C13_LevelCompleteBeforeNext ==
    \A l \in 1..2 :
        (nodes[l + 1] # <<>> \/ (level = l /\ runPc = "partition")) =>
            \A n \in 1..Len(nodes[l]) :
                /\ nodes[l][n].label # ""
                /\ nodes[l][n].description # ""
                /\ (l - 1 < Len(config.ks) - 1) =>
                      nodes[l][n].description_embedding # NoEmbedding

C13_Witness ==
    /\ runPc = "partition"
    /\ level = 2
    /\ Len(nodes[2]) = 2
    /\ \A n \in 1..2 : nodes[2][n].description_embedding # NoEmbedding
    /\ nodes[1][1].label = "Cluster 0"

\* C14: while an embedding operation of a level is under way, every node
\* of the level has had its labeling call completed and its description
\* stored, and the strings being embedded are those descriptions.
C14_EmbedAfterLabel ==
    (runPc = "embedding" /\ embedOutcome.status # "idle") =>
        /\ labelTask = <<>>
        /\ Len(descriptions) = Len(nodes[level + 1]) \/ descriptions = <<>>
        /\ \A n \in 1..Len(nodes[level + 1]) :
              /\ nodes[level + 1][n].label # ""
              /\ nodes[level + 1][n].description # ""
              /\ descriptions # <<>> =>
                    descriptions[n] = nodes[level + 1][n].description

C14_Witness ==
    /\ runPc = "embedding"
    /\ level = 1
    /\ \E b \in DOMAIN batchTask : batchTask[b].pc = "calling"
    /\ Len(nodes[2]) = 2
    /\ nodes[2][2].label = "Cluster 1"

\* What level l partitions: the topic indices at level 0, the node ids of
\* the level below above it.
LevelInputs(l) ==
    IF l = 0 THEN 0..(Len(topics) - 1)
    ELSE {nodes[l][i].node_id : i \in 1..Len(nodes[l])}

\* The places (node, position) of level l whose children_refs entry is x.
RefPlaces(l, x) ==
    {p \in {<<n, j>> : n \in 1..Len(nodes[l + 1]), j \in 1..MaxTopics + 1} :
        /\ p[2] <= Len(nodes[l + 1][p[1]].children_refs)
        /\ nodes[l + 1][p[1]].children_refs[p[2]] = x}

\* C15: at every partitioned level each input index occurs in exactly one
\* children_refs, once, and children_refs hold nothing but input indices.
C15_DisjointFullCover ==
    \A l \in 0..2 :
        nodes[l + 1] # <<>> =>
            /\ \A x \in LevelInputs(l) : Cardinality(RefPlaces(l, x)) = 1
            /\ \A n \in 1..Len(nodes[l + 1]) :
                  /\ Len(nodes[l + 1][n].children_refs) <= MaxTopics + 1
                  /\ \A j \in 1..Len(nodes[l + 1][n].children_refs) :
                        nodes[l + 1][n].children_refs[j] \in LevelInputs(l)

C15_Witness ==
    /\ nodes[3] # <<>>
    /\ nodes[3][1].children_refs = <<0, 1>>
    /\ Len(nodes[2]) = 2
    /\ nodes[1][1].children_refs = <<0>>
    /\ nodes[1][2].children_refs = <<1>>

\* C16: no node of any level has an empty children_refs.
C16_NoEmptyNode ==
    \A l \in 1..3 : \A n \in 1..Len(nodes[l]) :
        nodes[l][n].children_refs # <<>>

\* The nodes of level l + 1 (positions) whose children_refs hold id.
Holders(l, id) ==
    {p \in 1..Len(nodes[l + 2]) : InSeq(id, nodes[l + 2][p].children_refs)}

\* C17: once level l + 1 has been labeled and back-linked, every node of
\* level l is in the children_refs of exactly one node of level l + 1, and
\* its parent_id is the node_id of that node.
C17_ParentLinks ==
    \A l \in 0..1 :
        (l + 1) \in LabeledLevels =>
            \A n \in 1..Len(nodes[l + 1]) :
                LET holders == Holders(l, nodes[l + 1][n].node_id)
                IN  /\ Cardinality(holders) = 1
                    /\ \A p \in holders :
                          nodes[l + 1][n].parent_id = nodes[l + 2][p].node_id

C17_Witness ==
    /\ runPc = "done"
    /\ nodes[1][1].parent_id = 1
    /\ nodes[1][2].parent_id = 0
    /\ nodes[2][1].parent_id = 0
    /\ nodes[2][2].parent_id = 0

\* C18: after a successful run the nodes of level len(ks) - 1 have neither
\* parent_id nor description_embedding, and the nodes of every level below
\* it have both.
C18_TopmostUnset ==
    runPc = "done" =>
        \A l \in 0..2 : \A n \in 1..Len(nodes[l + 1]) :
            /\ l = Len(config.ks) - 1 =>
                  /\ nodes[l + 1][n].parent_id = NoParent
                  /\ nodes[l + 1][n].description_embedding = NoEmbedding
            /\ l < Len(config.ks) - 1 =>
                  /\ nodes[l + 1][n].parent_id # NoParent
                  /\ nodes[l + 1][n].description_embedding # NoEmbedding

\* C19: whatever the length of ks, the run fails at no level for want of
\* a level count, and when it completes there are ks[L] nodes at each
\* configured level L and one level of nodes per entry of ks.
C19_AllConfiguredLevels ==
    /\ runPc = "raised" => runError.cls # "IndexError"
    /\ runPc = "done" =>
          /\ Len(config.ks) <= 3
          /\ \A l \in 1..3 :
                Len(nodes[l]) = IF l <= Len(config.ks) THEN config.ks[l] ELSE 0

\* C20: a level asked for more clusters than it has members does not make
\* the run raise.
C20_DegenerateHandled ==
    ~ /\ runPc = "raised"
      /\ embedOutcome.status # "raised"
      /\ level + 1 <= Len(config.ks)
      /\ config.ks[level + 1] > Len(LevelVectors)

\* Whether row r (1-based) of the input table carries a vector, and the
\* position it then has among the rows that do.
HasVector(r) == df[r].Topic_Embedding \notin InvalidCells

FilteredPosition(r) == Cardinality({q \in 1..(r - 1) : HasVector(q)})

BlankCells == [id |-> "", label |-> "", description |-> "",
               description_embedding |-> ""]

\* C21: the assignments table has one record per row of the input table;
\* a row without a vector has its six level columns blank, a row with one
\* carries the id of the level-0 node that lists it.
C21_AssignmentsPerRow ==
    runPc = "done" =>
        /\ Len(tables.assignments) = Len(df)
        /\ \A r \in 1..Len(df) :
              LET a == tables.assignments[r]
              IN  IF HasVector(r)
                    THEN \E n \in 1..Len(nodes[1]) :
                           /\ InSeq(FilteredPosition(r), nodes[1][n].children_refs)
                           /\ a.cluster_L0_id = ToString(nodes[1][n].node_id)
                    ELSE /\ a.cluster_L0_id = "" /\ a.cluster_L0_label = ""
                         /\ a.cluster_L1_id = "" /\ a.cluster_L1_label = ""
                         /\ a.cluster_L2_id = "" /\ a.cluster_L2_label = ""

\* C23: the augmented table has one row per row of the input table, with
\* the original columns; a row without a vector has every hierarchy cell
\* blank, a row with one carries the id and label of the level-0 node that
\* lists its position among the rows with a vector.
C23_AugmentedPerRow ==
    runPc = "done" =>
        /\ Len(tables.augmented) = Len(df)
        /\ \A r \in 1..Len(df) :
              LET a == tables.augmented[r]
              IN  /\ a.Topic = df[r].Topic
                  /\ a.Topic_Embedding = df[r].Topic_Embedding
                  /\ IF HasVector(r)
                        THEN \E n \in 1..Len(nodes[1]) :
                               /\ InSeq(FilteredPosition(r),
                                        nodes[1][n].children_refs)
                               /\ a.L0.id = ToString(nodes[1][n].node_id)
                               /\ a.L0.label = nodes[1][n].label
                        ELSE a.L0 = BlankCells /\ a.L1 = BlankCells
                             /\ a.L2 = BlankCells

C23_Witness ==
    /\ runPc = "done"
    /\ Len(df) >= 3
    /\ ~HasVector(1) /\ HasVector(2) /\ HasVector(3)
    /\ tables.augmented[1].L0 = BlankCells
    /\ tables.augmented[2].L0.id = "1"
    /\ tables.augmented[3].L0.id = "0"
    /\ tables.augmented[3].L2.id = "0"

\* The nodes (positions) of level-0 that list topic index idx, and the
\* nodes of a level with the id given.
ListedBy(idx) == {n \in 1..Len(nodes[1]) : InSeq(idx, nodes[1][n].children_refs)}

WithId(l, id) == {n \in 1..Len(nodes[l]) : nodes[l][n].node_id = id}

\* C22: in the assignments table the id and label of a level are filled
\* exactly when every hop up to that level resolved (an id of 0 resolves
\* like any other), with the values of the node reached; a level after a
\* missing hop is blank, and so is every level above it.
C22_HopByHop ==
    runPc = "assigned" =>
        \A r \in 1..Len(topics) :
            LET a == tables.assignments[r]
                hop0 == ListedBy(r - 1) # {}
                n0 == CHOOSE n \in ListedBy(r - 1) : TRUE
                hop1 == hop0 /\ nodes[1][n0].parent_id # NoParent
                n1 == CHOOSE n \in WithId(2, nodes[1][n0].parent_id) : TRUE
                hop2 == hop1 /\ nodes[2][n1].parent_id # NoParent
                n2 == CHOOSE n \in WithId(3, nodes[2][n1].parent_id) : TRUE
            IN  /\ IF hop0
                      THEN /\ a.cluster_L0_id = ToString(nodes[1][n0].node_id)
                           /\ a.cluster_L0_label = nodes[1][n0].label
                      ELSE a.cluster_L0_id = "" /\ a.cluster_L0_label = ""
                /\ IF hop1
                      THEN /\ a.cluster_L1_id = ToString(nodes[2][n1].node_id)
                           /\ a.cluster_L1_label = nodes[2][n1].label
                      ELSE a.cluster_L1_id = "" /\ a.cluster_L1_label = ""
                /\ IF hop2
                      THEN /\ a.cluster_L2_id = ToString(nodes[3][n2].node_id)
                           /\ a.cluster_L2_label = nodes[3][n2].label
                      ELSE a.cluster_L2_id = "" /\ a.cluster_L2_label = ""

C22_Witness ==
    /\ runPc = "assigned"
    /\ tables.assignments[1].cluster_L0_id = "0"
    /\ tables.assignments[1].cluster_L1_id = "0"
    /\ tables.assignments[1].cluster_L2_id = "0"
    /\ tables.assignments[1].cluster_L2_label = "L2_0"
    /\ tables.assignments[2].cluster_L0_id = "1"
    /\ tables.assignments[2].cluster_L1_id = ""
    /\ tables.assignments[2].cluster_L2_id = ""

\* C24: after a response that lacked the label or the description key (the
\* ValueError of the labeler) no backoff wait and no further call follow
\* for that node.
C24_MissingKeyFatal ==
    \A n \in DOMAIN labelTask :
        labelTask[n].last_error.cls = "ValueError" =>
            labelTask[n].pc \notin {"sleeping", "calling"}

\* C25: a node whose labeling has ended has a non-empty label.
C25_LabelNonEmpty ==
    \A n \in DOMAIN labelTask :
        labelTask[n].pc = "done" => nodes[level + 1][n].label # ""

\* C26: in process_clustering of the pipeline, once the embedding of a
\* cluster description has failed the stage has raised and the clustered
\* output file is not written.
C26_EmbedFailureFatal ==
    (\E i \in DOMAIN stage.results : stage.results[i].embedding = "") =>
        /\ stage.pc = "raised"
        /\ stage.output_csv = <<>>

\* C27: a step never changes a parent_id that holds a value, and gives a
\* node a parent_id only when exactly one node of the level above lists it.
C27_ParentWrittenOnce ==
    [][\A l \in 1..2 : \A n \in 1..Len(nodes[l]) :
          /\ Len(nodes'[l]) >= n
          /\ nodes[l][n].parent_id # NoParent =>
                nodes'[l][n].parent_id = nodes[l][n].parent_id
          /\ nodes'[l][n].parent_id # nodes[l][n].parent_id =>
                Cardinality({p \in 1..Len(nodes'[l + 1]) :
                               InSeq(nodes[l][n].node_id,
                                     nodes'[l + 1][p].children_refs)}) = 1]_vars

C27_Witness ==
    /\ runPc = "outputs"
    /\ nodes[1][1].parent_id = 0
    /\ nodes[1][2].parent_id = 1
    /\ nodes[2][1].parent_id = 0
    /\ nodes[2][2].parent_id = 0
    /\ nodes[3][1].parent_id = NoParent

\* C28: in every state every node has num_children = len(children_refs).
C28_NumChildren ==
    \A l \in 1..3 : \A n \in 1..Len(nodes[l]) :
        nodes[l][n].num_children = Len(nodes[l][n].children_refs)

C28_Witness ==
    /\ runPc = "done"
    /\ \E n \in 1..Len(nodes[1]) :
          /\ nodes[1][n].children_refs = <<0, 1>>
          /\ nodes[1][n].num_children = 2
          /\ nodes[1][n].label = "L<topics:\n- t1\n- ... and 0 more items>"
          /\ nodes[1][n].description_embedding # NoEmbedding
          /\ nodes[1][n].parent_id # NoParent

\* C29: a description_embedding a node carries is the vector of that
\* node's own description.
C29_OwnEmbedding ==
    \A l \in 1..3 : \A n \in 1..Len(nodes[l]) :
        nodes[l][n].description_embedding # NoEmbedding =>
            nodes[l][n].description_embedding
               = EmbeddingOf(nodes[l][n].description)

\* The label and description of node n of the list l.
PairOf(ns, l, n) ==
    [label |-> ns[l][n].label, description |-> ns[l][n].description]

\* The descriptions of the nodes of the list l - 1 whose ids are in the
\* children_refs of node n of the list l, in the order of that list.
DescriptionsOfChildren(l, n) ==
    LET listed == SortedSeq({i \in 1..Len(nodes[l - 1]) :
                    \E j \in 1..Len(nodes[l][n].children_refs) :
                        nodes[l][n].children_refs[j] = nodes[l - 1][i].node_id})
    IN  [j \in 1..Len(listed) |-> nodes[l - 1][listed[j]].description]

\* C30: a step changes the label or description of a node only when the
\* label task of that node returns, the node being unwritten until then,
\* and changes no other node; above level 0 a generated pair is the answer
\* to the descriptions of exactly the children the node lists.
C30_OneWriterPerNode ==
    [][\A l \in 1..3 : \A n \in 1..Len(nodes[l]) :
          (Len(nodes'[l]) >= n /\ PairOf(nodes', l, n) # PairOf(nodes, l, n)) =>
              /\ runPc = "labeling" /\ l = level + 1
              /\ labelTask[n].pc = "calling" /\ labelTask'[n].pc = "done"
              /\ PairOf(nodes, l, n) = NoResult
              /\ \A k \in 1..3 : \A m \in 1..Len(nodes[k]) :
                    <<k, m>> # <<l, n>> =>
                        PairOf(nodes', k, m) = PairOf(nodes, k, m)
              /\ (l >= 2 /\ ~labelTask'[n].fallback) =>
                    LET prompt == Prompt(l - 1, DescriptionsOfChildren(l, n))
                    IN  PairOf(nodes', l, n) =
                          [label |-> "L<" \o prompt \o ">",
                           description |-> "D<" \o prompt \o ">"]]_vars

C30_Witness ==
    /\ runPc = "labeling"
    /\ level = 1
    /\ Len(labelTask) = 2
    /\ labelTask[1].pc = "done" /\ ~labelTask[1].fallback
    /\ labelTask[2].pc = "calling"
    /\ nodes[2][1].children_refs = <<1>>
    /\ nodes[2][1].label = "L<sub-clusters:\n- " \o nodes[1][2].description \o ">"
    /\ nodes[2][2].label = ""

\* The level-0 node of a labeling run has been labeled from an answer of
\* the service, not from the fallback.
LabeledFromAnswer ==
    /\ level = 0
    /\ Len(nodes[1]) = 1
    /\ Len(labelTask) = 1
    /\ labelTask[1].pc = "done"
    /\ ~labelTask[1].fallback

\* The text is a truncation marker "... and N more items".
IsMarker(text) ==
    /\ Len(text) >= Len("... and  more items")
    /\ SubSeq(text, 1, 8) = "... and "
    /\ SubSeq(text, Len(text) - 10, Len(text)) = " more items"

\* The label the service gives to the prompt of level 0 with this items
\* text.
AnswerLabel(items_text) == "L<topics:\n" \o items_text \o ">"

\* C31: the labeler sends the first max_items_per_prompt items followed by
\* one truncation marker when the input has more items, the unchanged list
\* without a marker otherwise, and an items text of at most
\* max_chars_per_prompt characters.
C31_ItemsTruncated ==
    LabeledFromAnswer =>
        LET items == ClusterTopics(nodes[1][1])
            sent == TruncateItems(items)
            limit == config.max_items_per_prompt
        IN  /\ Len(items) > limit =>
                /\ Len(sent) = limit + 1
                /\ SubSeq(sent, 1, limit) = SubSeq(items, 1, limit)
                /\ IsMarker(sent[limit + 1])
            /\ Len(items) <= limit =>
                /\ sent = items
                /\ \A i \in 1..Len(sent) : ~IsMarker(sent[i])
            /\ Len(ItemsText(items)) <= config.max_chars_per_prompt
            /\ nodes[1][1].label = AnswerLabel(ItemsText(items))

C31_Witness ==
    /\ LabeledFromAnswer
    /\ Len(topics) = 3
    /\ config.max_items_per_prompt = 2
    /\ config.max_chars_per_prompt = 7
    /\ nodes[1][1].label = AnswerLabel("- t1\n- ")

\* The items the specification has the labeler send: the marker states the
\* number of items dropped.
ClaimedItems(items) ==
    IF Len(items) > config.max_items_per_prompt
      THEN Append(SubSeq(items, 1, config.max_items_per_prompt),
                  "... and "
                  \o ToString(Len(items) - config.max_items_per_prompt)
                  \o " more items")
      ELSE items

\* C32: when items are dropped, the number in the truncation marker of the
\* prompt that was sent is the number of items dropped.
C32_MarkerCount ==
    (LabeledFromAnswer /\ Len(topics) > config.max_items_per_prompt) =>
        LET text == JoinItems(ClaimedItems(ClusterTopics(nodes[1][1])))
        IN  nodes[1][1].label =
              AnswerLabel(SubSeq(text, 1,
                  Min(Len(text), config.max_chars_per_prompt)))

\* C33 as stated: the deterministic delays of the consecutive waits of one
\* embedding batch never decrease, and a batch that has ended after at
\* least one failed call waited one time less than it had failed calls.
C33_WaitsAsStated ==
    \A b \in DOMAIN batchTask :
        LET t == batchTask[b]
            failed_calls == IF t.pc = "done" THEN t.calls - 1 ELSE t.calls
        IN  /\ \A i \in 2..Len(t.slept) : t.slept[i - 1] <= t.slept[i]
            /\ (t.pc \in {"done", "failed"} /\ failed_calls >= 1) =>
                    Len(t.slept) = failed_calls - 1

\* C33, amended: the deterministic delays of the consecutive waits of one
\* embedding batch never decrease, each is min(max_delay, base_delay *
\* 2^attempt); a batch that ended in failure waited once after each failed
\* call but the last, a batch that ended with its vectors waited once
\* after each of its failed calls.
C33_WaitsNonDecreasing ==
    \A b \in DOMAIN batchTask :
        LET t == batchTask[b]
        IN  /\ \A i \in 1..Len(t.slept) :
                /\ t.slept[i] =
                     Min(config.max_delay, config.base_delay * (2 ^ (i - 1)))
                /\ i > 1 => t.slept[i - 1] <= t.slept[i]
            /\ t.pc = "sleeping" => Len(t.slept) = t.calls
            /\ t.pc = "failed" => Len(t.slept) = t.calls - 1
            /\ t.pc = "done" => Len(t.slept) = t.calls - 1

C33_Witness ==
    \E b \in DOMAIN batchTask :
        /\ batchTask[b].pc = "failed"
        /\ batchTask[b].calls = 3
        /\ batchTask[b].slept = <<1, 2>>
        /\ config.max_delay = 3

AllOutputs == {"nodes", "assignments", "augmented"}

\* The positions of the tasks of a level: no level of the runs has more
\* than two nodes.
LiveTasks == {1, 2}

LabelQueued(n) == n \in DOMAIN labelTask /\ labelTask[n].pc = "waiting"
LabelAdmitted(n) == n \in DOMAIN labelTask /\ labelTask[n].pc = "calling"
BatchQueued(b) == b \in DOMAIN batchTask /\ batchTask[b].pc = "waiting"
BatchAdmitted(b) == b \in DOMAIN batchTask /\ batchTask[b].pc = "calling"

\* The part of C34 that holds as stated: the run ends with all outputs
\* written or with an error raised, each labeling task makes at most
\* max_retries + 1 calls, and every queued labeling task is admitted.
RunTerminates ==
    /\ <>(runPc \in {"done", "raised"})
    /\ [](runPc = "done" => files = AllOutputs)
    /\ [](runPc = "raised" => runError # NoException)
    /\ [](\A n \in DOMAIN labelTask :
              labelTask[n].calls <= config.max_retries + 1)
    /\ \A n \in LiveTasks : LabelQueued(n) ~> LabelAdmitted(n)

TopicForRow(i) == "T<" \o Strip(topicGen.rows[i]) \o ">"

\* C36: in _generate_topics_async the entry of a row is written by the task
\* of that row only: it is the topic of the call made for the row (or the
\* empty text when the answer had no content), the empty topic when the
\* call failed for good, and unwritten until the task has ended; the table
\* is written with an entry for every row.
C36_TopicPerRow ==
    /\ \A i \in DOMAIN topicGen.task :
          LET t == topicGen.task[i]
              topic == topicGen.results[i]
          IN  /\ t.pc # "done" => topic = NoTopic
              /\ (t.pc = "done" /\ t.outcome = "answered") =>
                    topic \in {TopicForRow(i), ""}
              /\ (t.pc = "done" /\ t.outcome = "failed") => topic = ""
              /\ (t.pc = "done" /\ t.outcome = "blank") =>
                    topic = "Topic not found"
              /\ t.calls <= topicGen.max_retries + 1
    /\ topicGen.pc = "written" =>
          /\ Len(topicGen.output_csv) = Len(topicGen.rows)
          /\ \A i \in DOMAIN topicGen.rows :
                /\ topicGen.output_csv[i].Topic # NoTopic
                /\ topicGen.output_csv[i].Topic = topicGen.results[i]

C36_Witness ==
    /\ topicGen.pc = "written"
    /\ Len(topicGen.rows) = 2
    /\ topicGen.task[1].outcome = "failed"
    /\ topicGen.task[2].outcome = "answered"
    /\ topicGen.output_csv[1].Topic = ""
    /\ topicGen.output_csv[2].Topic = "T<c2>"

\* The distinct stripped topics of the Topic column.
StrippedTopics ==
    {Strip(topicEmbed.raw_topics[i]) : i \in DOMAIN topicEmbed.raw_topics}
       \ {""}

\* C37: when embed_topics writes its table, every row whose stripped topic is
\* non-empty holds the serialised vector the service returned for exactly
\* that stripped topic and every blank row holds "null", whatever the batch
\* size and the order in which the batches completed; and at every moment
\* each distinct stripped topic belongs to exactly one batch, the only batch
\* ever sent to the service with it.
C37_VectorPerTopic ==
    /\ topicEmbed.pc # "idle" =>
          /\ \A t \in StrippedTopics :
                Cardinality({b \in DOMAIN topicEmbed.batches :
                               InSeq(t, topicEmbed.batches[b])}) = 1
          /\ \A k \in DOMAIN topicEmbed.sent :
                \E b \in DOMAIN topicEmbed.batches :
                   topicEmbed.sent[k] = topicEmbed.batches[b]
    /\ topicEmbed.pc = "written" =>
          /\ Len(topicEmbed.output_csv) = Len(topicEmbed.raw_topics)
          /\ \A t \in StrippedTopics :
                \E k \in DOMAIN topicEmbed.sent : InSeq(t, topicEmbed.sent[k])
          /\ \A i \in DOMAIN topicEmbed.raw_topics :
                topicEmbed.output_csv[i].Topic_Embedding =
                   IF Strip(topicEmbed.raw_topics[i]) = "" THEN "null"
                   ELSE DumpVector(TopicVector(Strip(topicEmbed.raw_topics[i])))

\* A table written after two batches completed in the reverse of their
\* order, one of them retried, with two rows sharing a stripped topic and a
\* blank row.
C37_Witness ==
    /\ topicEmbed.pc = "written"
    /\ Len(topicEmbed.batches) = 2
    /\ Len(topicEmbed.sent) = 3
    /\ topicEmbed.sent[Len(topicEmbed.sent)] = topicEmbed.batches[1]
    /\ topicEmbed.raw_topics = <<" a", " ", "b ">>
    /\ topicEmbed.output_csv[1].Topic_Embedding = "[1, 1]"
    /\ topicEmbed.output_csv[2].Topic_Embedding = "null"

\* The rows of valid_df that share the first depth ids of row j.
StageGroup(j, depth) ==
    {i \in DOMAIN stage.valid_df :
        SubSeq(stage.valid_df[i].ids, 1, depth) =
           SubSeq(stage.valid_df[j].ids, 1, depth)}

\* C38: once process_clustering has run its three clustering passes, there is
\* at least one valid row and every valid row has an L2 id, an L1 id and an L0
\* id inside the configured ranges, none of them the initial -1; a row whose
\* L2 group has fewer members than l1_clusters has the L1 id 0, and a row
\* whose L1 group has fewer members than l0_clusters has the L0 id 0.
C38_IdsInRange ==
    stage.pc \notin {"idle", "start", "raised"} =>
       /\ Len(stage.valid_df) >= 1
       /\ \A j \in DOMAIN stage.valid_df :
             /\ stage.valid_df[j].ids[1] \in 0..(stage.n_clusters.l2_clusters - 1)
             /\ stage.valid_df[j].ids[2] \in 0..(stage.n_clusters.l1_clusters - 1)
             /\ stage.valid_df[j].ids[3] \in 0..(stage.n_clusters.l0_clusters - 1)
             /\ Cardinality(StageGroup(j, 1)) < stage.n_clusters.l1_clusters
                   => stage.valid_df[j].ids[2] = 0
             /\ Cardinality(StageGroup(j, 2)) < stage.n_clusters.l0_clusters
                   => stage.valid_df[j].ids[3] = 0

\* Two valid rows in one L2 group large enough to be split into two L1
\* groups, each of them too small for the L0 pass.
C38_Witness ==
    /\ stage.pc = "labeling"
    /\ Len(stage.valid_df) = 2
    /\ stage.valid_df[1].ids[1] = stage.valid_df[2].ids[1]
    /\ stage.valid_df[1].ids[2] # stage.valid_df[2].ids[2]
    /\ stage.valid_df[1].ids[3] = 0
    /\ stage.valid_df[2].ids[3] = 0

\* The position of a stage in the order of main.
StageRank(name) == CHOOSE i \in 1..Len(StageOrder) : StageOrder[i] = name

\* C39: at every moment of main, for every combination of the skip flags,
\* the stages that ran did so in the order generate, embed, cluster, upsert,
\* each of them read the output file of the stage that ran most recently
\* before it, or the user's input file when none had run, and when main has
\* completed the upsert stage has run.
C39_ReadsLatestOutput ==
    /\ \A k \in DOMAIN runner.calls :
          /\ runner.calls[k].input_csv =
                IF k = 1 THEN runner.args.input
                ELSE runner.calls[k - 1].output_csv
          /\ k > 1 => StageRank(runner.calls[k - 1].stage)
                         < StageRank(runner.calls[k].stage)
    /\ runner.pc = "done" =>
          /\ runner.calls # <<>>
          /\ runner.calls[Len(runner.calls)].stage = "upsert"

====
